---- MODULE Spec2Model ----
(***************************************************************************)
(* mseep: one canonical list of MCP servers reconciled into the config     *)
(* files of several clients (claude, cline, vscode, cursor, warp), plus    *)
(* the concurrent health-check engine.                                     *)
(*                                                                         *)
(* Strings that the program inspects character by character (entity names, *)
(* queries) are sequences of one-character strings; the empty Go string is *)
(* the empty sequence.                                                     *)
(***************************************************************************)
EXTENDS Integers, Sequences, FiniteSets, TLC

VARIABLES
  \* ---- canonical store, client files and the last command ----
  canon,     \* a.Canon: [servers, profiles]
  files,     \* the config file of each client
  dirs,      \* the clients whose config directory exists
  backups,   \* the backup files of each client, by timestamp
  now,       \* the clock, in seconds
  last,      \* what the last command did (a record kept for the properties)
  ops,       \* number of commands run so far
  \* ---- health engine (internal/health/health.go) ----
  hsrv,      \* the servers argument of CheckServers
  wpc,       \* position of each worker goroutine
  results,   \* the results slice
  sem,       \* number of tokens held in the semaphore channel
  doneCh,    \* number of tokens buffered in the done channel
  mi,        \* loop index i of the wait loop of CheckServers
  mpc,       \* position of CheckServers itself
  ctxDone,   \* the batch context has been cancelled
  \* ---- a single call of a function of the program ----
  probe      \* the function called, its arguments and what it returned

hvars == <<hsrv, wpc, results, sem, doneCh, mi, mpc, ctxDone>>
rvars == <<canon, files, dirs, backups, now, last, ops>>
vars == <<canon, files, dirs, backups, now, last, ops,
          hsrv, wpc, results, sem, doneCh, mi, mpc, ctxDone, probe>>

(***************************************************************************)
(* Names used in the model.                                                *)
(***************************************************************************)
GITHUB == <<"g", "i", "t", "h", "u", "b">>
GITLAB == <<"g", "i", "t", "l", "a", "b">>
CUSTOM == <<"m", "y">>
EmptyStr == <<>>

(***************************************************************************)
(* Strings: strings.ToLower, strings.TrimSpace, strings.Contains,          *)
(* strings.Fields on sequences of characters.                              *)
(***************************************************************************)
LowerChars == <<"a", "b", "c", "d", "e", "f", "g", "h", "i", "j", "k", "l", "m",
                "n", "o", "p", "q", "r", "s", "t", "u", "v", "w", "x", "y", "z">>
UpperChars == <<"A", "B", "C", "D", "E", "F", "G", "H", "I", "J", "K", "L", "M",
                "N", "O", "P", "Q", "R", "S", "T", "U", "V", "W", "X", "Y", "Z">>

\* unicode.ToLower on the letters A-Z.
LowerOf == [ch \in {UpperChars[i] : i \in 1..Len(UpperChars)} |->
              LowerChars[CHOOSE i \in 1..Len(UpperChars) : UpperChars[i] = ch]]

LowerChar(ch) == IF ch \in DOMAIN LowerOf THEN LowerOf[ch] ELSE ch

ToLower(s) == [i \in 1..Len(s) |-> LowerChar(s[i])]

IsSpace(ch) == ch \in {" ", "\t", "\n"}

RECURSIVE TrimLeft(_)
TrimLeft(s) == IF s # <<>> /\ IsSpace(Head(s)) THEN TrimLeft(Tail(s)) ELSE s

RECURSIVE TrimRight(_)
TrimRight(s) ==
  IF s # <<>> /\ IsSpace(s[Len(s)]) THEN TrimRight(SubSeq(s, 1, Len(s) - 1)) ELSE s

TrimSpace(s) == TrimRight(TrimLeft(s))

\* strings.Contains(s, sub)
Contains(s, sub) ==
  \E i \in 0..(Len(s) - Len(sub)) : SubSeq(s, i + 1, i + Len(sub)) = sub

\* strings.Fields(s): the maximal runs of non-space characters, in order.
RECURSIVE Fields(_)
Fields(s) ==
  LET cut(t, stop) == <<SubSeq(t, 1, stop - 1)>> \o Fields(SubSeq(t, stop, Len(t)))
      first(t, ends) == cut(t, IF ends = {} THEN Len(t) + 1
                               ELSE CHOOSE i \in ends : \A j \in ends : i <= j)
      fields(t) == IF t = <<>> THEN <<>>
                   ELSE first(t, {i \in 1..Len(t) : IsSpace(t[i])})
  IN fields(TrimLeft(s))

\* Byte order of two characters of the model's alphabet.
CharOrder == <<" ", ".", "0", "1", "2", "3", "4", "5", "6", "7", "8", "9", "_">>
               \o UpperChars \o LowerChars
OrdOf == [ch \in {CharOrder[i] : i \in 1..Len(CharOrder)} |->
            CHOOSE i \in 1..Len(CharOrder) : CharOrder[i] = ch]
Ord(ch) == OrdOf[ch]

\* a < b as Go compares strings (bytewise).
RECURSIVE StrLess(_, _)
StrLess(a, b) ==
  IF b = <<>> THEN FALSE
  ELSE IF a = <<>> THEN TRUE
  ELSE IF Head(a) = Head(b) THEN StrLess(Tail(a), Tail(b))
  ELSE Ord(Head(a)) < Ord(Head(b))

(***************************************************************************)
(* Resolver: internal/fuzzy/fuzzy.go                                       *)
(***************************************************************************)
\* scoreOne(q, s)
scoreOne(q0, s0) ==
  LET all(s, toks) == Len(toks) > 0 /\ \A i \in 1..Len(toks) : Contains(s, toks[i])
      score(q, s) ==
        IF q = <<>> \/ s = <<>> THEN 0
        ELSE IF q = s THEN 100
        ELSE IF Contains(s, q) THEN 80 - (Len(s) - Len(q))
        ELSE IF all(s, Fields(q)) THEN 60 - (Len(s) - Len(q))
        ELSE 0
  IN score(ToLower(TrimSpace(q0)), ToLower(TrimSpace(s0)))

Max(S) == CHOOSE x \in S : \A y \in S : y <= x

\* best of Candidates: the maximum of scoreOne over name, aliases and tags.
BestScore(q, it) ==
  Max({scoreOne(q, it.name)}
      \cup {scoreOne(q, it.aliases[i]) : i \in 1..Len(it.aliases)}
      \cup {scoreOne(q, it.tags[i]) : i \in 1..Len(it.tags)})

\* The scored entries of Candidates before sorting, in input order.
RECURSIVE Scored(_, _)
Scored(q, idx) ==
  IF idx = <<>> THEN <<>>
  ELSE LET entry(best) ==
             IF best > 0 THEN <<[index |-> Head(idx), score |-> best]>> ELSE <<>>
       IN entry(BestScore(q, Head(idx))) \o Scored(q, Tail(idx))

\* Insertion with the comparison the wrong way round: ascending scores.
RECURSIVE InsertAscending(_, _)
InsertAscending(r, sorted) ==
  IF sorted = <<>> THEN <<r>>
  ELSE IF r.score < Head(sorted).score THEN <<r>> \o sorted
  ELSE <<Head(sorted)>> \o InsertAscending(r, Tail(sorted))

\* Insertion of r into a list sorted by descending score, after its equals:
\* the insertion sort sort.Slice runs on slices of at most 12 elements.
RECURSIVE InsertByScore(_, _)
InsertByScore(r, sorted) ==
  IF sorted = <<>> THEN <<r>>
  ELSE IF r.score > Head(sorted).score THEN <<r>> \o sorted
  ELSE <<Head(sorted)>> \o InsertByScore(r, Tail(sorted))

RECURSIVE SortByScore(_)
SortByScore(l) ==
  IF l = <<>> THEN <<>>
  ELSE InsertByScore(l[Len(l)], SortByScore(SubSeq(l, 1, Len(l) - 1)))

\* Candidates(query, idx) on at most InsertionSortMax entities (the canonical
\* lists of the commands), where sort.Slice has one outcome.
Candidates(query, idx) ==
  LET cands(q) == IF q = <<>> THEN <<>> ELSE SortByScore(Scored(q, idx))
  IN cands(TrimSpace(query))

\* sort.Slice runs the insertion sort on slices of at most 12 elements and a
\* pattern-defeating quicksort on longer ones, which keeps no order among
\* elements that compare equal ("The sort is not guaranteed to be stable").
InsertionSortMax == 12

\* Every order of the elements of the sequence q.
Orders(q) ==
  {[i \in 1..Len(q) |-> q[f[i]]] :
     f \in {g \in [1..Len(q) -> 1..Len(q)] : \A i, j \in 1..Len(q) : g[i] = g[j] => i = j}}

\* The lists sorted by descending score made of the entries of the sorted
\* list l: every order of every run of equal scores.
RECURSIVE TieOrders(_)
TieOrders(l) ==
  LET split(run) ==
        {h \o t : h \in Orders(SubSeq(l, 1, run)),
                  t \in TieOrders(SubSeq(l, run + 1, Len(l)))}
  IN IF l = <<>> THEN {<<>>}
     ELSE split(Cardinality({i \in 1..Len(l) : l[i].score = l[1].score}))

\* What sort.Slice(scores, by descending score) can leave in scores.
SortOutcomes(l) ==
  IF Len(l) <= InsertionSortMax THEN {SortByScore(l)} ELSE TieOrders(SortByScore(l))

\* Candidates(query, idx) on any number of entities: the lists it can return.
CandidateLists(query, idx) ==
  LET cands(q) == IF q = <<>> THEN {<<>>} ELSE SortOutcomes(Scored(q, idx))
  IN cands(TrimSpace(query))

\* ambiguousThreshold of SelectBest.
AmbiguousThreshold == 5

\* A band that leaves out the candidates exactly at the threshold.
RECURSIVE GoodPrefixStrict(_, _)
GoodPrefixStrict(cands, bestScore) ==
  IF cands = <<>> THEN <<>>
  ELSE IF bestScore - Head(cands).score < AmbiguousThreshold
    THEN <<Head(cands)>> \o GoodPrefixStrict(Tail(cands), bestScore)
  ELSE <<>>

\* goodCandidates of SelectBest: the prefix within the threshold of the best.
RECURSIVE GoodPrefix(_, _)
GoodPrefix(cands, bestScore) ==
  IF cands = <<>> THEN <<>>
  ELSE IF bestScore - Head(cands).score <= AmbiguousThreshold
    THEN <<Head(cands)>> \o GoodPrefix(Tail(cands), bestScore)
  ELSE <<>>

GoodCandidates(cands) == GoodPrefix(cands, cands[1].score)

\* What the user may type at "Select option [1]: " (a number, nothing, or
\* something that is no number), and what strconv.Atoi makes of it; 0 stands
\* for a parse error, which is rejected like an out-of-range number.
Selections == {"", "2", "9", "x"}
Atoi(resp) ==
  CASE resp = "1" -> 1 [] resp = "2" -> 2 [] resp = "9" -> 9 [] OTHER -> 0

\* A SelectBest that looks at the ambiguity band whatever assumeYes says.
SelectFromAsking(candidates, assumeYes, resp) ==
  LET none == [name |-> EmptyStr, aliases |-> <<>>, tags |-> <<>>]
      choose(good, sel) ==
        IF Len(good) = 1
          THEN [err |-> FALSE, prompted |-> FALSE, index |-> good[1].index,
                offered |-> <<>>]
        ELSE IF sel < 1 \/ sel > Len(good)
          THEN [err |-> TRUE, prompted |-> TRUE, index |-> none, offered |-> good]
        ELSE [err |-> FALSE, prompted |-> TRUE, index |-> good[sel].index,
              offered |-> good]
      select(cands) ==
        IF Len(cands) = 0
          THEN [err |-> TRUE, prompted |-> FALSE, index |-> none, offered |-> <<>>]
        ELSE IF Len(cands) = 1
          THEN [err |-> FALSE, prompted |-> FALSE, index |-> cands[1].index,
                offered |-> <<>>]
        ELSE choose(GoodCandidates(cands), Atoi(IF resp = "" THEN "1" ELSE resp))
  IN select(candidates)

\* SelectBest after "candidates := Candidates(query, idx)", when the user
\* answers resp to a prompt: the chosen index, whether the user was prompted,
\* the options offered, whether it failed.
SelectFrom(candidates, assumeYes, resp) ==
  LET none == [name |-> EmptyStr, aliases |-> <<>>, tags |-> <<>>]
      choose(good, sel) ==
        IF Len(good) = 1
          THEN [err |-> FALSE, prompted |-> FALSE, index |-> good[1].index,
                offered |-> <<>>]
        ELSE IF sel < 1 \/ sel > Len(good)
          THEN [err |-> TRUE, prompted |-> TRUE, index |-> none, offered |-> good]
        ELSE [err |-> FALSE, prompted |-> TRUE, index |-> good[sel].index,
              offered |-> good]
      select(cands) ==
        IF Len(cands) = 0
          THEN [err |-> TRUE, prompted |-> FALSE, index |-> none, offered |-> <<>>]
        ELSE IF Len(cands) = 1 \/ assumeYes
          THEN [err |-> FALSE, prompted |-> FALSE, index |-> cands[1].index,
                offered |-> <<>>]
        ELSE choose(GoodCandidates(cands), Atoi(IF resp = "" THEN "1" ELSE resp))
  IN select(candidates)

\* SelectBest(query, idx, assumeYes) of the commands.
SelectBest(query, idx, assumeYes, resp) ==
  SelectFrom(Candidates(query, idx), assumeYes, resp)

(***************************************************************************)
(* Client config files and the adapters: internal/adapters/*               *)
(***************************************************************************)
Clients == {"claude", "cline", "vscode", "cursor", "warp"}

\* Clients whose servers live under "mcp.servers" of a settings.json that
\* holds other settings as well (VSCodeConfig.Other, CursorConfig.Other).
SettingsClients == {"vscode", "cursor"}

\* A JSON number is kept as <<hi, lo>> = hi * 10^8 + lo.
Limb == 100000000
\* 2^53 = 9007199254740992, the last integer up to which float64 is exact.
Exact53Hi == 90071992
Exact53Lo == 54740992

NumLeq(a, b) == a[1] < b[1] \/ (a[1] = b[1] /\ a[2] <= b[2])

\* The float64 nearest to the integer n (n < 2^54): json.Unmarshal into
\* interface{} stores every number as float64. Above 2^53 the float64 values
\* are the even integers, and a tie goes to the even mantissa.
Float64(n) ==
  IF NumLeq(n, <<Exact53Hi, Exact53Lo>>) \/ n[2] % 2 = 0 THEN n
  ELSE LET up == IF n[2] + 1 = Limb THEN <<n[1] + 1, 0>> ELSE <<n[1], n[2] + 1>>
           down == <<n[1], n[2] - 1>>
       IN IF up[2] % 4 = 0 THEN up ELSE down

\* JSON values of the settings the tool does not own.
StrVal(x) == [t |-> "str", s |-> x, n |-> <<0, 0>>]
NumVal(x) == [t |-> "num", s |-> "", n |-> x]

\* A value after json.Unmarshal into interface{} and json.Marshal again.
RoundTrip(v) == IF v.t = "num" THEN [v EXCEPT !.n = Float64(v.n)] ELSE v

\* No file at the client's path.
NoFile == [exists |-> FALSE, ok |-> FALSE, hasSrv |-> FALSE, srv |-> <<>>, other |-> <<>>]
\* A file that is not JSON.
Garbage == [exists |-> TRUE, ok |-> FALSE, hasSrv |-> FALSE, srv |-> <<>>, other |-> <<>>]
\* A JSON file: the members of its server map and its other top-level
\* members, each in the order they have in the file.
JsonFile(hasSrv, srv, other) ==
  [exists |-> TRUE, ok |-> TRUE, hasSrv |-> hasSrv, srv |-> srv, other |-> other]

\* ClaudeServer, ClineServer, VSCodeServer, CursorServer, WarpServer; enabled
\* is WarpServer.Enabled; extra stands for the members of the JSON object
\* that the struct has no field for ("" when there are none).
Entry(command, args, env, enabled, extra) ==
  [command |-> command, args |-> args, env |-> env, enabled |-> enabled, extra |-> extra]

\* json.Unmarshal of one server object into the client's struct.
ParseEntry(c, e) ==
  [e EXCEPT !.extra = "", !.enabled = IF c = "warp" THEN e.enabled ELSE FALSE]

\* The Go map a sequence of JSON members decodes to.
MapOf(members, val(_)) ==
  [k \in {members[i].k : i \in 1..Len(members)} |->
     val((members[CHOOSE i \in 1..Len(members) :
                    members[i].k = k /\ \A j \in 1..Len(members) : members[j].k = k => j <= i]).v)]

EmptyMap == [k \in {} |-> 0]

\* Adapter.Load of each adapter: the config it returns, or an error.
Load(c, file) ==
  LET empty == [servers |-> EmptyMap, other |-> EmptyMap]
      entry(e) == ParseEntry(c, e)
  IN IF ~file.exists THEN [err |-> FALSE, cfg |-> empty]
     ELSE IF ~file.ok
       THEN IF c \in {"cline", "warp"} THEN [err |-> FALSE, cfg |-> empty]
            ELSE [err |-> TRUE, cfg |-> empty]
     ELSE [err |-> FALSE,
           cfg |-> [servers |-> MapOf(file.srv, entry),
                    other |-> IF c \in SettingsClients THEN MapOf(file.other, RoundTrip)
                              ELSE EmptyMap]]

\* Keys of a map in the order encoding/json writes them (sorted).
RECURSIVE SortedKeys(_)
SortedKeys(S) ==
  IF S = {} THEN <<>>
  ELSE LET m == CHOOSE x \in S : \A y \in S : y = x \/ StrLess(x, y)
       IN <<m>> \o SortedKeys(S \ {m})

Members(m) ==
  LET members(ks) == [i \in 1..Len(ks) |-> [k |-> ks[i], v |-> m[ks[i]]]]
  IN members(SortedKeys(DOMAIN m))

\* json.MarshalIndent of a config: of the struct for claude, cline and warp
\* (the server key is always written), of the map built by Apply for vscode
\* and cursor ("mcp.servers" only when there is a server).
Marshal(c, cfg) ==
  IF c \in SettingsClients
  THEN JsonFile(DOMAIN cfg.servers # {}, Members(cfg.servers), Members(cfg.other))
  ELSE JsonFile(TRUE, Members(cfg.servers), <<>>)

\* enabled := map[string]config.Server{} of the adapters' Apply: the enabled
\* servers by name (a later server of the same name replaces an earlier one).
EnabledMap(servers) ==
  [n \in {servers[i].name : i \in {j \in 1..Len(servers) : servers[j].enabled}} |->
     servers[CHOOSE i \in 1..Len(servers) :
               /\ servers[i].enabled /\ servers[i].name = n
               /\ \A j \in 1..Len(servers) :
                    servers[j].enabled /\ servers[j].name = n => j <= i]]

\* The client's descriptor of a canonical server.
CanonEntry(c, s) == Entry(s.command, s.args, s.env, c = "warp", "")

\* A merge that keeps the client's descriptor of a server it already has.
AdapterMergeKeep(c, cfg, servers) ==
  LET merged(enabled) ==
        [n \in DOMAIN enabled |->
           IF n \in DOMAIN cfg.servers THEN cfg.servers[n] ELSE CanonEntry(c, enabled[n])]
  IN [servers |-> merged(EnabledMap(servers)), other |-> cfg.other]

\* The merge of the adapters' Apply: the existing entries that are enabled,
\* then every enabled server from canonical.
AdapterMerge(c, cfg, servers) ==
  LET kept(enabled) == [n \in DOMAIN cfg.servers \cap DOMAIN enabled |-> cfg.servers[n]]
      merged(enabled, old) ==
        [n \in DOMAIN old \cup DOMAIN enabled |->
           IF n \in DOMAIN enabled THEN CanonEntry(c, enabled[n]) ELSE old[n]]
      merge(enabled) == merged(enabled, kept(enabled))
  IN [servers |-> merge(EnabledMap(servers)), other |-> cfg.other]

CanonNames(servers) == {servers[i].name : i \in 1..Len(servers)}

\* The merge of App.applyToClaude and App.applytoCursor: the entries that
\* are no canonical server, then every enabled server from canonical.
AppMerge(c, cfg, servers) ==
  LET merged(unmanaged, enabled) ==
        [n \in DOMAIN unmanaged \cup DOMAIN enabled |->
           IF n \in DOMAIN enabled THEN CanonEntry(c, enabled[n]) ELSE unmanaged[n]]
  IN [servers |-> merged([n \in DOMAIN cfg.servers \ CanonNames(servers) |-> cfg.servers[n]],
                         EnabledMap(servers)),
      other |-> cfg.other]

(***************************************************************************)
(* One client's reconciliation. Each operator returns what the call did:   *)
(*   ran      the client was detected and the apply was entered            *)
(*   loaded   Load succeeded and before/after were computed                *)
(*   before, after   the two serializations that are compared              *)
(*   prompted, approved   the user was asked / the answer was y or yes     *)
(*   events   the files written, in order: "backup", "write"               *)
(*   file, bak   the client file and its backups after the call            *)
(*   err      an error was returned                                        *)
(*   fail     the step that returned it: "load", "backup", "write", "read" *)
(***************************************************************************)
\* Timestamps of the model: the clock runs from 0 to MaxTime seconds.
MaxTime == 1

NoBackups == [t \in 0..MaxTime |-> NoFile]

\* The answer that stands for a failed read of standard input.
EOF == <<"EOF">>
\* What the user may answer to "Apply these changes? [y/N]: ".
Responses == {<<"Y", "e", "s", " ">>, <<"n">>, EOF}

\* response = strings.ToLower(strings.TrimSpace(response));
\* response == "y" || response == "yes"
Approves(resp) == ToLower(TrimSpace(resp)) \in {<<"y">>, <<"y", "e", "s">>}

NotRun(file, bak) ==
  [ran |-> FALSE, loaded |-> FALSE, before |-> NoFile, after |-> NoFile,
   prompted |-> FALSE, approved |-> FALSE, events |-> <<>>,
   file |-> file, bak |-> bak, err |-> FALSE, fail |-> "", route |-> "none"]

\* Adapter.Backup: copy the file to <path>.bak.<t>; nothing to do, and no
\* error, when there is no file. fails: the copy cannot be read or written.
Backup(file, bak, t, fails) ==
  IF ~file.exists THEN [err |-> FALSE, made |-> FALSE, bak |-> bak]
  ELSE IF fails THEN [err |-> TRUE, made |-> FALSE, bak |-> bak]
  ELSE [err |-> FALSE, made |-> TRUE, bak |-> [bak EXCEPT ![t] = file]]

\* A write of the new content that is followed, not preceded, by the backup.
WriteThenBackup(o, t, io) ==
  LET backup(b) ==
        IF b.err THEN [o EXCEPT !.events = <<"write">>, !.file = o.after, !.err = TRUE,
                                !.fail = "backup"]
        ELSE [o EXCEPT !.bak = b.bak, !.file = o.after,
                       !.events = <<"write">> \o (IF b.made THEN <<"backup">> ELSE <<>>)]
  IN IF io = "write" THEN [o EXCEPT !.err = TRUE, !.fail = "write"]
     ELSE backup(Backup(o.after, o.bak, t, io = "backup"))

\* A write of the serialization of what was loaded instead of the merged one.
WriteBefore(o, t, io) ==
  LET write(b) ==
        IF b.err THEN [o EXCEPT !.err = TRUE, !.fail = "backup"]
        ELSE IF io = "write"
          THEN [o EXCEPT !.bak = b.bak, !.err = TRUE, !.fail = "write",
                         !.events = IF b.made THEN <<"backup">> ELSE <<>>]
        ELSE [o EXCEPT !.bak = b.bak, !.file = o.before,
                       !.events = (IF b.made THEN <<"backup">> ELSE <<>>) \o <<"write">>]
  IN write(Backup(o.file, o.bak, t, io = "backup"))

\* "if _, err := a.Backup(); err != nil { return }" followed by
\* os.WriteFile(p, after): io is "backup" or "write" when that step fails.
BackupThenWrite(o, t, io) ==
  LET ev(b) == IF b.made THEN <<"backup">> ELSE <<>>
      write(b) ==
        IF b.err THEN [o EXCEPT !.err = TRUE, !.fail = "backup"]
        ELSE IF io = "write"
          THEN [o EXCEPT !.bak = b.bak, !.events = ev(b), !.err = TRUE, !.fail = "write"]
        ELSE [o EXCEPT !.bak = b.bak, !.events = ev(b) \o <<"write">>, !.file = o.after]
  IN write(Backup(o.file, o.bak, t, io = "backup"))

\* Adapter.Apply(canon) of claude, cline, vscode, cursor and warp.
AdapterApply(c, file, bak, t, servers, io) ==
  LET o == [NotRun(file, bak) EXCEPT !.ran = TRUE, !.route = "adapter"]
      apply(ld) ==
        IF ld.err THEN [o EXCEPT !.err = TRUE, !.fail = "load"]
        ELSE BackupThenWrite(   \* whatever the comparison of the two says
               [o EXCEPT !.loaded = TRUE,
                         !.before = Marshal(c, ld.cfg),
                         !.after = Marshal(c, AdapterMerge(c, ld.cfg, servers))],
               t, io)
  IN apply(Load(c, file))

\* The prompt of the App's apply functions: "" when autoApprove is set.
Ask(o, autoApprove, resp) ==
  IF autoApprove THEN o
  ELSE IF resp = EOF THEN [o EXCEPT !.prompted = TRUE, !.err = TRUE, !.fail = "read"]
  ELSE [o EXCEPT !.prompted = TRUE, !.approved = Approves(resp)]

\* App.applyToClaude and App.applytoCursor, after detection.
AppApply(c, file, bak, t, servers, io, autoApprove, resp) ==
  LET o == [NotRun(file, bak) EXCEPT !.ran = TRUE, !.route = "app"]
      asked(o2) ==
        IF o2.err THEN o2
        ELSE IF ~autoApprove /\ ~o2.approved THEN o2
        ELSE BackupThenWrite(o2, t, io)
      compared(o1) ==
        IF o1.before = o1.after THEN o1 ELSE asked(Ask(o1, autoApprove, resp))
      apply(ld) ==
        IF ld.err THEN [o EXCEPT !.err = TRUE, !.fail = "load"]
        ELSE compared([o EXCEPT !.loaded = TRUE,
                                !.before = Marshal(c, ld.cfg),
                                !.after = Marshal(c, AppMerge(c, ld.cfg, servers))])
  IN apply(Load(c, file))

\* App.applyToGenericClient (vscode, cline, warp), after detection: the
\* adapter's Apply runs first, the question comes after it.
GenericApply(c, file, bak, t, servers, io, autoApprove, resp) ==
  LET applied(o) == IF o.err THEN o ELSE Ask(o, autoApprove, resp)
  IN applied([AdapterApply(c, file, bak, t, servers, io) EXCEPT !.route = "generic"])

(***************************************************************************)
(* The commands: App.Toggle (internal/app/wire.go) and App.Apply           *)
(* (internal/app/apply.go).                                                *)
(***************************************************************************)
\* Adapter.Detect: claude, vscode and cursor look for the config file, cline
\* and warp for the directory that holds it.
Detect(c, fs, ds) == IF c \in {"cline", "warp"} THEN c \in ds ELSE fs[c].exists

\* What `last` keeps of one client's reconciliation.
Rec(o, fileBefore) ==
  [ran |-> o.ran, loaded |-> o.loaded, before |-> o.before, after |-> o.after,
   prompted |-> o.prompted, approved |-> o.approved, events |-> o.events,
   err |-> o.err, fail |-> o.fail, route |-> o.route, fileBefore |-> fileBefore]

NoRuns == [c \in Clients |-> Rec(NotRun(NoFile, NoBackups), NoFile)]

LastNone ==
  [op |-> "none", query |-> EmptyStr, mode |-> "", profile |-> "", resolved |-> FALSE,
   chosen |-> EmptyStr, prompted |-> FALSE, saved |-> FALSE, err |-> FALSE,
   serversBefore |-> <<>>, targets |-> {}, runs |-> NoRuns]

\* The io argument of the commands: the one file operation that fails.
IoNone == [c |-> "", kind |-> "none"]
IoFor(io, c) == IF io.c = c THEN io.kind ELSE "none"

\* fuzzy.Index of each canonical server.
IndexOf(servers) ==
  [i \in 1..Len(servers) |->
     [name |-> servers[i].name, aliases |-> servers[i].aliases, tags |-> servers[i].tags]]

\* A flip that sets the state of every server.
FlipEvery(servers, chosen, mode) ==
  [i \in 1..Len(servers) |->
     [servers[i] EXCEPT !.enabled =
        CASE mode = "enable" -> TRUE
          [] mode = "disable" -> FALSE
          [] mode = "toggle" -> ~servers[i].enabled
          [] OTHER -> servers[i].enabled]]

\* "flip state in canonical": the first server named chosen.
Flip(servers, chosen, mode) ==
  LET hits == {i \in 1..Len(servers) : servers[i].name = chosen}
  IN IF hits = {} THEN servers
     ELSE LET i == CHOOSE x \in hits : \A y \in hits : x <= y
          IN [servers EXCEPT ![i].enabled =
                CASE mode = "enable" -> TRUE
                  [] mode = "disable" -> FALSE
                  [] mode = "toggle" -> ~servers[i].enabled
                  [] OTHER -> servers[i].enabled]

Modes == {"enable", "disable", "toggle"}

\* App.Toggle(mode, query, client, assumeYes). sel: the user's answer if
\* SelectBest prompts; saveFails: config.Save fails; io: a failing file
\* operation.
Toggle(mode, query, client, assumeYes, sel, saveFails, io) ==
  LET base(best) ==
        [LastNone EXCEPT !.op = "toggle", !.query = query, !.mode = mode,
                         !.prompted = best.prompted, !.serversBefore = canon.servers]
      \* "apply to selected clients": every adapter that is asked for and detected
      runs(servers1) ==
        [c \in Clients |->
           IF (client = "" \/ client = c) /\ Detect(c, files, dirs)
           THEN AdapterApply(c, files[c], backups[c], now, servers1, IoFor(io, c))
           ELSE NotRun(files[c], backups[c])]
      applied(b, out) ==
        /\ files' = [c \in Clients |-> out[c].file]
        /\ backups' = [c \in Clients |-> out[c].bak]
        /\ last' = [b EXCEPT !.saved = TRUE,
                             !.err = \E c \in Clients : out[c].err,
                             !.targets = {c \in Clients : out[c].ran},
                             !.runs = [c \in Clients |-> Rec(out[c], files[c])]]
      flipped(b, servers1) ==
        /\ canon' = [canon EXCEPT !.servers = servers1]
        /\ IF saveFails
             THEN /\ last' = [b EXCEPT !.err = TRUE]
                  /\ UNCHANGED <<files, backups>>
           ELSE applied(b, runs(servers1))
      resolved(best) ==
        IF best.err
          THEN /\ last' = [base(best) EXCEPT !.err = TRUE]
               /\ UNCHANGED <<canon, files, backups>>
        ELSE flipped([base(best) EXCEPT !.resolved = TRUE, !.chosen = best.index.name],
                     Flip(canon.servers, best.index.name, mode))
  IN /\ ops' = ops + 1
     /\ UNCHANGED <<dirs, now>>
     /\ resolved(SelectBest(query, IndexOf(canon.servers), assumeYes, sel))

\* A profile applied without the reset: the members enabled, the rest as
\* they were.
ProfileServersNoReset(servers, members) ==
  [i \in 1..Len(servers) |->
     [servers[i] EXCEPT !.enabled =
        \/ servers[i].enabled
        \/ \E m \in 1..Len(members) : members[m] = servers[i].name]]

\* App.applyProfile: every server disabled, then the members enabled.
ProfileServers(servers, members) ==
  [i \in 1..Len(servers) |->
     [servers[i] EXCEPT !.enabled =
        \E m \in 1..Len(members) :
          /\ members[m] = servers[i].name
          /\ \A j \in 1..Len(servers) : servers[j].name = servers[i].name => i <= j]]

\* The switch of App.Apply: apply to one client.
ApplyTo(c, fs, bs, ds, t, servers, io, autoApprove, resp) ==
  IF c \notin Clients
    THEN [NotRun(NoFile, NoBackups) EXCEPT !.err = TRUE, !.fail = "unknown"]
  ELSE IF ~Detect(c, fs, ds)
    THEN [NotRun(fs[c], bs[c]) EXCEPT !.err = TRUE, !.fail = "undetected"]
  ELSE IF c \in {"claude", "cursor"}
    THEN AppApply(c, fs[c], bs[c], t, servers, IoFor(io, c), autoApprove, resp)
  ELSE GenericApply(c, fs[c], bs[c], t, servers, IoFor(io, c), autoApprove, resp)

\* "for i, c := range clients": the clients in order, until one fails.
\* out maps the clients reached so far to what their apply did.
RECURSIVE ApplyLoop(_, _, _)
ApplyLoop(order, out, in) ==
  LET next(c, o) ==
        IF o.err THEN out @@ (c :> o) ELSE ApplyLoop(Tail(order), out @@ (c :> o), in)
  IN IF order = <<>> THEN out
     ELSE next(Head(order),
               ApplyTo(Head(order), in.files, in.backups, in.dirs, in.now, in.servers,
                       in.io, in.auto, in.resp))

Perms(S) ==
  {f \in [1..Cardinality(S) -> S] : \A i, j \in 1..Cardinality(S) : f[i] = f[j] => i = j}


\* App.Apply(client, profile, autoApprove). resp: the user's answer to each
\* prompt; order: the order in which the detected clients are visited (a Go
\* map is ranged over in no fixed order).
Apply(client, profile, autoApprove, resp, saveFails, io, order) ==
  LET base == [LastNone EXCEPT !.op = "apply", !.profile = profile,
                               !.serversBefore = canon.servers]
      applied(out, reached) ==
        /\ files' = [c \in Clients |-> IF c \in reached THEN out[c].file ELSE files[c]]
        /\ backups' = [c \in Clients |-> IF c \in reached THEN out[c].bak ELSE backups[c]]
        /\ last' = [base EXCEPT !.saved = (profile # ""),
                                !.err = (order = <<>>) \/ \E c \in DOMAIN out : out[c].err,
                                !.targets = {c \in Clients :
                                               /\ \E i \in 1..Len(order) : order[i] = c
                                               /\ Detect(c, files, dirs)},
                                !.runs = [c \in Clients |->
                                            IF c \in reached THEN Rec(out[c], files[c])
                                            ELSE NoRuns[c]]]
      loop(out) == applied(out, DOMAIN out \cap Clients)
      selected(servers1) ==
        /\ canon' = [canon EXCEPT !.servers = servers1]
        /\ IF profile # "" /\ saveFails
             THEN /\ last' = [base EXCEPT !.err = TRUE]
                  /\ UNCHANGED <<files, backups>>
           ELSE loop(ApplyLoop(order, EmptyMap,
                               [files |-> files, backups |-> backups, dirs |-> dirs,
                                now |-> now, servers |-> servers1, io |-> io,
                                auto |-> autoApprove, resp |-> resp]))
  IN /\ ops' = ops + 1
     /\ UNCHANGED <<dirs, now>>
     /\ IF client = "" \/ client = "all"
          THEN order \in Perms({c \in Clients : Detect(c, files, dirs)})
        ELSE order = <<client>>
     /\ IF profile # "" /\ profile \notin DOMAIN canon.profiles
          THEN /\ last' = [base EXCEPT !.err = TRUE]
               /\ UNCHANGED <<canon, files, backups>>
        ELSE selected(IF profile = "" THEN canon.servers
                      ELSE ProfileServers(canon.servers, canon.profiles[profile]))

\* A second passes; now counts the seconds since the first command.
Tick ==
  /\ ops > 0
  /\ now < MaxTime
  /\ now' = now + 1
  /\ UNCHANGED <<canon, files, dirs, backups, last, ops>>

(***************************************************************************)
(* Health engine: internal/health/health.go                                *)
(***************************************************************************)
StatusHealthy == "healthy"
StatusUnhealthy == "unhealthy"
StatusTimeout == "timeout"
StatusError == "error"
Statuses == {StatusHealthy, StatusUnhealthy, StatusTimeout, StatusError}

\* Capacity of the semaphore channel: sem := make(chan struct{}, 10).
SemCap == 10
\* timeout = 5 * time.Second when TimeoutMs is 0.
DefaultTimeoutMs == 5000
\* time.After(500 * time.Millisecond) between retries.
RetryDelayMs == 500
\* time.After(1 * time.Second): the grace window of the stdio check.
GraceMs == 1000

\* The zero value of CheckResult (attempts is a ghost field: the number of
\* checker.Check calls that produced the result).
ZeroResult == [name |-> EmptyStr, type |-> "", status |-> "", attempts |-> 0]

\* server.Health == nil
NoHealth == [set |-> FALSE, type |-> "", url |-> "", timeoutMs |-> 0, retries |-> 0]

\* What the operating system does with a command (the environment of the
\* stdio check): "serve" keeps running, "true" exits 0 at once, "false"
\* exits 1 at once, "absent" cannot be started.
Behaviour(command) ==
  CASE command = "serve" -> "runs"
    [] command = "true" -> "exit0"
    [] command = "false" -> "exit1"
    [] OTHER -> "nostart"

\* A check that leaves the process running when its context ends.
StdioRunsNoKill(srv, remaining, cancel) ==
  LET end(status, dur, started, killed) ==
        [status |-> status, dur |-> dur, started |-> started, killed |-> killed]
  IN IF srv.command = "" THEN {end(StatusError, 0, FALSE, FALSE)}
     ELSE IF cancel = "before" \/ remaining <= 0 \/ Behaviour(srv.command) = "nostart"
       THEN {end(StatusError, 0, FALSE, FALSE)}            \* cmd.Start() fails
     ELSE IF Behaviour(srv.command) = "exit0"
       THEN {end(StatusHealthy, 0, TRUE, FALSE)}
     ELSE IF Behaviour(srv.command) = "exit1"
       THEN {end(StatusUnhealthy, 0, TRUE, FALSE)}
     ELSE IF cancel = "during"
       THEN {end(StatusTimeout, 0, TRUE, FALSE)}              \* case <-ctx.Done()
     ELSE  \* still running: the grace timer races the deadline of the context
       (IF remaining >= GraceMs THEN {end(StatusHealthy, GraceMs, TRUE, TRUE)} ELSE {})
       \cup (IF remaining <= GraceMs THEN {end(StatusTimeout, remaining, TRUE, FALSE)} ELSE {})

\* StdioChecker.Check: the ways it can end when `remaining` ms are left on
\* the check context: the status, the duration and, as ghost fields, whether
\* the process was started and whether it was killed. cancel says when the
\* batch context is cancelled: "no", "before" the process is started, or
\* "during" the wait for it.
StdioRuns(srv, remaining, cancel) ==
  LET end(status, dur, started, killed) ==
        [status |-> status, dur |-> dur, started |-> started, killed |-> killed]
  IN IF srv.command = "" THEN {end(StatusError, 0, FALSE, FALSE)}
     ELSE IF cancel = "before" \/ remaining <= 0 \/ Behaviour(srv.command) = "nostart"
       THEN {end(StatusError, 0, FALSE, FALSE)}            \* cmd.Start() fails
     ELSE IF Behaviour(srv.command) = "exit0"
       THEN {end(StatusHealthy, 0, TRUE, FALSE)}
     ELSE IF Behaviour(srv.command) = "exit1"
       THEN {end(StatusUnhealthy, 0, TRUE, FALSE)}
     ELSE IF cancel = "during"
       THEN {end(StatusTimeout, 0, TRUE, TRUE)}              \* case <-ctx.Done()
     ELSE  \* still running: the grace timer races the deadline of the context
       (IF remaining >= GraceMs THEN {end(StatusHealthy, GraceMs, TRUE, TRUE)} ELSE {})
       \cup (IF remaining <= GraceMs THEN {end(StatusTimeout, remaining, TRUE, TRUE)} ELSE {})

\* StdioChecker.Check: the set of (status, duration) it can end with.
StdioCheck(srv, remaining, cancel) ==
  {[status |-> r.status, dur |-> r.dur] : r \in StdioRuns(srv, remaining, cancel)}

\* HTTPChecker.Check and TCPChecker.Check: the peer decides the outcome.
NetCheck(srv, remaining, cancel) ==
  IF ~srv.health.set \/ srv.health.url = "" THEN {[status |-> StatusError, dur |-> 0]}
  ELSE IF cancel # "no" THEN {[status |-> StatusUnhealthy, dur |-> 0]}
  ELSE IF remaining <= 0 THEN {[status |-> StatusTimeout, dur |-> 0]}
  ELSE {[status |-> StatusHealthy, dur |-> 0], [status |-> StatusUnhealthy, dur |-> 0],
        [status |-> StatusTimeout, dur |-> remaining]}

\* m.checkers: the registered checker types.
Checkers == {"stdio", "http", "tcp"}

CheckerCheck(type, srv, remaining, cancel) ==
  IF type = "stdio" THEN StdioCheck(srv, remaining, cancel) ELSE NetCheck(srv, remaining, cancel)

\* healthSpec of CheckServer: the server's spec or the stdio default.
HealthSpecOf(srv) ==
  IF srv.health.set THEN srv.health
  ELSE [set |-> TRUE, type |-> "stdio", url |-> "", timeoutMs |-> DefaultTimeoutMs, retries |-> 1]

EffTimeout(hs) == IF hs.timeoutMs = 0 THEN DefaultTimeoutMs ELSE hs.timeoutMs
EffRetries(hs) == IF hs.retries = 0 THEN 1 ELSE hs.retries

\* A run of CheckServer: the result it returns and, as ghost fields, the
\* statuses of the attempts it made, in order, and whether it ended in the
\* wait between two attempts.
ZeroRun == [res |-> ZeroResult, tries |-> <<>>, expired |-> FALSE]

\* A retry loop without the break after a healthy attempt.
RECURSIVE CheckLoopNoBreak(_, _, _, _, _, _, _)
CheckLoopNoBreak(srv, hs, i, t, run, mayCancel, dead) ==
  IF i >= EffRetries(hs) THEN {run}
  ELSE
    LET timeout == EffTimeout(hs)
        timedOut == [res |-> [name |-> srv.name, type |-> hs.type,
                              status |-> StatusTimeout, attempts |-> Len(run.tries)],
                     tries |-> run.tries, expired |-> TRUE]
        \* the select between checkCtx.Done() and the retry delay
        waitExpires == i > 0 /\ (dead \/ mayCancel \/ t + RetryDelayMs >= timeout)
        waitPasses == i = 0 \/ (~dead /\ t + RetryDelayMs <= timeout)
        t1 == IF i > 0 THEN t + RetryDelayMs ELSE t
        cancels == IF dead THEN {"before"}
                   ELSE IF mayCancel THEN {"no", "before", "during"} ELSE {"no"}
        after(o, c) ==
          LET r == [res |-> [name |-> srv.name, type |-> hs.type, status |-> o.status,
                             attempts |-> Len(run.tries) + 1],
                    tries |-> Append(run.tries, o.status), expired |-> FALSE]
          IN CheckLoopNoBreak(srv, hs, i + 1, t1 + o.dur, r, mayCancel, c # "no")
    IN (IF waitExpires THEN {timedOut} ELSE {})
       \cup (IF waitPasses
             THEN UNION {UNION {after(o, c) : o \in CheckerCheck(hs.type, srv, timeout - t1, c)}
                         : c \in cancels}
             ELSE {})

\* The retry loop of CheckServer from iteration i on, t ms after the start,
\* with lastResult = run.res. mayCancel: the batch context may be cancelled
\* while the loop runs; dead: it has been cancelled.
RECURSIVE CheckLoop(_, _, _, _, _, _, _)
CheckLoop(srv, hs, i, t, run, mayCancel, dead) ==
  IF i >= EffRetries(hs) THEN {run}
  ELSE
    LET timeout == EffTimeout(hs)
        timedOut == [res |-> [name |-> srv.name, type |-> hs.type,
                              status |-> StatusTimeout, attempts |-> Len(run.tries)],
                     tries |-> run.tries, expired |-> TRUE]
        \* the select between checkCtx.Done() and the retry delay
        waitExpires == i > 0 /\ (dead \/ mayCancel \/ t + RetryDelayMs >= timeout)
        waitPasses == i = 0 \/ (~dead /\ t + RetryDelayMs <= timeout)
        t1 == IF i > 0 THEN t + RetryDelayMs ELSE t
        cancels == IF dead THEN {"before"}
                   ELSE IF mayCancel THEN {"no", "before", "during"} ELSE {"no"}
        after(o, c) ==
          LET r == [res |-> [name |-> srv.name, type |-> hs.type, status |-> o.status,
                             attempts |-> Len(run.tries) + 1],
                    tries |-> Append(run.tries, o.status), expired |-> FALSE]
          IN IF o.status = StatusHealthy THEN {r}
             ELSE CheckLoop(srv, hs, i + 1, t1 + o.dur, r, mayCancel, c # "no")
    IN (IF waitExpires THEN {timedOut} ELSE {})
       \cup (IF waitPasses
             THEN UNION {UNION {after(o, c) : o \in CheckerCheck(hs.type, srv, timeout - t1, c)}
                         : c \in cancels}
             ELSE {})

\* A CheckServer that runs the retry loop whatever the type.
CheckServerRunsAnyType(srv, mayCancel) ==
  CheckLoop(srv, HealthSpecOf(srv), 0, 0, ZeroRun, mayCancel, FALSE)

\* Manager.CheckServer: the runs it can make.
CheckServerRuns(srv, mayCancel) ==
  LET hs == HealthSpecOf(srv)
  IN IF hs.type \notin Checkers
     THEN {[res |-> [name |-> srv.name, type |-> hs.type, status |-> StatusError,
                     attempts |-> 0],
            tries |-> <<>>, expired |-> FALSE]}
     ELSE CheckLoop(srv, hs, 0, 0, ZeroRun, mayCancel, FALSE)

\* Manager.CheckServer: the results it can return.
CheckServer(srv, mayCancel) == {r.res : r \in CheckServerRuns(srv, mayCancel)}

(***************************************************************************)
(* Manager.CheckServers: one worker goroutine per server, a semaphore of   *)
(* SemCap tokens, a done channel of len(servers) tokens, and the wait loop. *)
(***************************************************************************)
\* config.Server
Server(name, command, enabled, health) ==
  [name |-> name, aliases |-> <<>>, tags |-> <<>>, command |-> command, args |-> <<>>,
   env |-> <<>>, enabled |-> enabled, health |-> health]

N == Len(hsrv)

\* go func(idx, srv) { sem <- struct{}{} ... : blocks while the semaphore is full.
\* A goroutine that reads the loop variable when it runs, after the loop.
SlotShared(k) == Len(hsrv)

\* go func(idx int, srv config.Server) {...}(i, server): the slot the k-th
\* goroutine writes is the index it was started with.
Slot(k) == k

\* A goroutine that starts its check without waiting for a semaphore slot.
AcquireUnbounded(k) ==
  /\ wpc[k] = "spawned"
  /\ sem' = sem + 1
  /\ wpc' = [wpc EXCEPT ![k] = "checking"]
  /\ UNCHANGED <<hsrv, results, doneCh, mi, mpc, ctxDone, rvars, probe>>

\* sem <- struct{}{}: blocks while the semaphore holds SemCap tokens.
Acquire(k) ==
  /\ wpc[k] = "spawned"
  /\ sem < SemCap
  /\ sem' = sem + 1
  /\ wpc' = [wpc EXCEPT ![k] = "checking"]
  /\ UNCHANGED <<hsrv, results, doneCh, mi, mpc, ctxDone, rvars, probe>>

\* results[idx] = m.CheckServer(ctx, srv), then the deferred done <- struct{}{}
\* (never blocks: the channel holds len(servers) tokens) and <-sem.
Finish(k) ==
  /\ wpc[k] = "checking"
  /\ \E r \in CheckServer(hsrv[k], ctxDone) :
       results' = [results EXCEPT ![Slot(k)] = r]
  /\ doneCh' = doneCh + 1
  /\ sem' = sem - 1
  /\ wpc' = [wpc EXCEPT ![k] = "exited"]
  /\ UNCHANGED <<hsrv, mi, mpc, ctxDone, rvars, probe>>

\* case <-done: of the wait loop.
MRecv ==
  /\ mpc = "wait" /\ mi < N
  /\ doneCh > 0
  /\ doneCh' = doneCh - 1
  /\ mi' = mi + 1
  /\ UNCHANGED <<hsrv, wpc, results, sem, mpc, ctxDone, rvars, probe>>

\* The synthetic result written for servers[j] on cancellation.
CancelledResult(j) ==
  [name |-> hsrv[j].name, type |-> "unknown", status |-> StatusTimeout, attempts |-> 0]

\* The slots the cancellation branch looks at: for j := i; j < len(servers); j++
\* (slots are numbered from 1 here, so Go's j is j - 1).
FillRange == (mi + 1)..N

\* case <-ctx.Done(): fill the remaining results and return.
MCancelled ==
  /\ mpc = "wait" /\ mi < N
  /\ ctxDone
  /\ results' = [j \in 1..N |->
                   IF j \in FillRange /\ results[j].name = EmptyStr
                   THEN CancelledResult(j) ELSE results[j]]
  /\ mpc' = "cancelled"
  /\ UNCHANGED <<hsrv, wpc, sem, doneCh, mi, ctxDone, rvars, probe>>

\* The loop has run len(servers) times: return results.
MReturn ==
  /\ mpc = "wait" /\ mi = N
  /\ mpc' = "returned"
  /\ UNCHANGED <<hsrv, wpc, results, sem, doneCh, mi, ctxDone, rvars, probe>>

\* The caller of CheckServers cancels the batch context.
Cancel ==
  /\ ~ctxDone
  /\ ctxDone' = TRUE
  /\ UNCHANGED <<hsrv, wpc, results, sem, doneCh, mi, mpc, rvars, probe>>

\* State at the start of the wait loop of CheckServers(ctx, servers).
CheckServersInit(servers) ==
  /\ hsrv = servers
  /\ wpc = [k \in 1..Len(servers) |-> "spawned"]
  /\ results = [k \in 1..Len(servers) |-> ZeroResult]
  /\ sem = 0
  /\ doneCh = 0
  /\ mi = 0
  /\ mpc = "wait"
  /\ ctxDone = FALSE

\* CheckServers has returned its slice.
Returned == mpc \in {"returned", "cancelled"}

(***************************************************************************)
(* App.Health(client, serverFilter, fix, jsonOutput): unnamed/part_004      *)
(***************************************************************************)
\* matchesFilter(server, filter)
MatchesFilter(srv, filter) ==
  LET matches(f) ==
        \/ Contains(ToLower(srv.name), f)
        \/ \E i \in 1..Len(srv.aliases) : Contains(ToLower(srv.aliases[i]), f)
        \/ \E i \in 1..Len(srv.tags) : Contains(ToLower(srv.tags[i]), f)
  IN matches(ToLower(filter))

\* getServersForHealthCheck(client, serverFilter): with no client the enabled
\* servers, with "claude" the servers found in Claude's config, with any other
\* client none; each narrowed by the filter.
ServersForHealthCheck(servers, fs, ds, client, filter) ==
  LET wanted(srv) == filter = <<>> \/ MatchesFilter(srv, filter)
      enabled(srv) == srv.enabled /\ wanted(srv)
      inClaude(ld) ==
        LET listed(srv) == srv.name \in DOMAIN ld.cfg.servers /\ wanted(srv)
        IN IF ld.err THEN <<>> ELSE SelectSeq(servers, listed)
  IN IF client = "" THEN SelectSeq(servers, enabled)
     ELSE IF client = "claude" /\ Detect("claude", fs, ds) THEN inClaude(Load("claude", fs["claude"]))
     ELSE <<>>

\* A fix that disables only the servers reported unhealthy.
HandleUnhealthyOnly(servers, res) ==
  [i \in 1..Len(servers) |->
     IF \E k \in 1..Len(res) : res[k].status = StatusUnhealthy /\ res[k].name = servers[i].name
     THEN [servers[i] EXCEPT !.enabled = FALSE] ELSE servers[i]]

\* handleHealthFixes(results): the canonical servers after every server named
\* by a result that is not healthy has been disabled.
HandleHealthFixes(servers, res) ==
  [i \in 1..Len(servers) |->
     IF \E k \in 1..Len(res) : res[k].status # StatusHealthy /\ res[k].name = servers[i].name
     THEN [servers[i] EXCEPT !.enabled = FALSE] ELSE servers[i]]

\* The rest of App.Health once CheckServers has returned; probe holds the
\* arguments of the call and the canonical document as stored on disk. No
\* server to check is an error; with fix the servers that are not healthy
\* are disabled and, if there is one, the document is saved.
HealthFinish ==
  LET base == [LastNone EXCEPT !.op = "health", !.serversBefore = canon.servers]
      toDisable == \E k \in 1..N : results[k].status # StatusHealthy
      fix(doc) ==
        /\ canon' = doc
        /\ last' = [base EXCEPT !.saved = ~probe.saveFails, !.err = probe.saveFails]
        /\ probe' = IF probe.saveFails THEN probe ELSE [probe EXCEPT !.stored = doc]
  IN /\ probe.fn = "Health" /\ last.op = "none"
     /\ mpc = "returned"
     /\ IF N = 0
          THEN last' = [base EXCEPT !.err = TRUE] /\ UNCHANGED <<canon, probe>>
        ELSE IF probe.fix /\ toDisable
          THEN fix([canon EXCEPT !.servers = HandleHealthFixes(canon.servers, results)])
        ELSE last' = base /\ UNCHANGED <<canon, probe>>
     /\ ops' = ops + 1
     /\ UNCHANGED <<files, dirs, backups, now, hvars>>

(***************************************************************************)
(* config.Load (internal/config/config.go) and LoadApp (internal/app/      *)
(* wire.go). The file at the canonical path is missing, cannot be read     *)
(* (a directory, no permission), is not JSON, or is a JSON object whose    *)
(* members "servers", "profiles" and "meta" may each be absent.            *)
(***************************************************************************)
NoDoc == [nil |-> TRUE]

CanonMissing == [state |-> "missing"]
CanonUnreadable == [state |-> "unreadable"]
CanonGarbage == [state |-> "garbage"]
CanonJson(hasServers, servers, hasProfiles, profiles, version) ==
  [state |-> "json", hasServers |-> hasServers, servers |-> servers,
   hasProfiles |-> hasProfiles, profiles |-> profiles, version |-> version]

\* *Canonical: a nil slice has no elements and a nil map no keys; version is
\* Meta.Version.
Canonical(servers, profilesNil, profiles, version) ==
  [nil |-> FALSE, servers |-> servers, profilesNil |-> profilesNil,
   profiles |-> profiles, version |-> version]

\* A Load that answers a file that is not JSON with the empty document.
ConfigLoadLenient(file) ==
  IF file.state \in {"missing", "garbage"}
    THEN [err |-> FALSE, doc |-> Canonical(<<>>, FALSE, EmptyMap, "1")]
  ELSE IF file.state = "unreadable" THEN [err |-> TRUE, doc |-> NoDoc]
  ELSE [err |-> FALSE,
        doc |-> Canonical(IF file.hasServers THEN file.servers ELSE <<>>,
                          ~file.hasProfiles,
                          IF file.hasProfiles THEN file.profiles ELSE EmptyMap,
                          file.version)]

\* config.Load(path)
ConfigLoad(file) ==
  IF file.state = "missing"
    THEN [err |-> FALSE, doc |-> Canonical(<<>>, FALSE, EmptyMap, "1")]
  ELSE IF file.state \in {"unreadable", "garbage"} THEN [err |-> TRUE, doc |-> NoDoc]
  ELSE [err |-> FALSE,
        doc |-> Canonical(IF file.hasServers THEN file.servers ELSE <<>>,
                          ~file.hasProfiles,
                          IF file.hasProfiles THEN file.profiles ELSE EmptyMap,
                          file.version)]

\* LoadApp(): the App, or the error of config.Load and no App.
LoadApp(file) ==
  LET made(r) == IF r.err THEN [err |-> TRUE, app |-> NoDoc]
                 ELSE [err |-> FALSE, app |-> [nil |-> FALSE, Canon |-> r.doc]]
  IN made(ConfigLoad(file))

(***************************************************************************)
(* Commands on the canonical store alone: profiles (internal/app/          *)
(* profiles.go) and the marketplace install (unnamed/part_003). Each       *)
(* records in probe its arguments, the document before and its outcome.    *)
(***************************************************************************)
\* "Validate that all servers exist": a member names no canonical server.
MissingMember(servers, serverNames) ==
  \E m \in 1..Len(serverNames) :
    \A i \in 1..Len(servers) : servers[i].name # serverNames[m]

StoreCall(fn, name, members, saveFails) ==
  [fn |-> fn, name |-> name, members |-> members, saveFails |-> saveFails,
   before |-> canon, err |-> FALSE, saved |-> FALSE]

\* The end of a store command: it fails before changing anything, or sets the
\* document and calls config.Save.
StoreOutcome(call, rejected, doc) ==
  /\ canon' = IF rejected THEN canon ELSE doc
  /\ probe' = [call EXCEPT !.err = rejected \/ call.saveFails,
                           !.saved = ~rejected /\ ~call.saveFails]
  /\ last' = LastNone
  /\ ops' = ops + 1
  /\ UNCHANGED <<files, dirs, backups, now>>

\* App.CreateProfile(name, serverNames)
CreateProfile(name, serverNames, saveFails) ==
  StoreOutcome(StoreCall("CreateProfile", name, serverNames, saveFails),
               \/ name = ""
               \/ name \in DOMAIN canon.profiles
               \/ MissingMember(canon.servers, serverNames),
               [canon EXCEPT !.profiles = (name :> serverNames) @@ canon.profiles])

\* App.UpdateProfile(name, serverNames)
UpdateProfile(name, serverNames, saveFails) ==
  StoreOutcome(StoreCall("UpdateProfile", name, serverNames, saveFails),
               \/ name \notin DOMAIN canon.profiles
               \/ MissingMember(canon.servers, serverNames),
               [canon EXCEPT !.profiles = (name :> serverNames) @@ canon.profiles])

\* App.DeleteProfile(name)
DeleteProfile(name, saveFails) ==
  StoreOutcome(StoreCall("DeleteProfile", name, <<>>, saveFails),
               name \notin DOMAIN canon.profiles,
               [canon EXCEPT !.profiles =
                  [p \in DOMAIN canon.profiles \ {name} |-> canon.profiles[p]]])

\* config.Server built from a marketplace entry: disabled, no health spec.
NewServer(entry) ==
  [Server(entry.name, entry.command, FALSE, NoHealth) EXCEPT !.tags = entry.tags]

\* An install that does not look for the name in the canonical document.
InstallUnchecked(entry, saveFails) ==
  StoreOutcome(StoreCall("InstallServer", entry.name, <<>>, saveFails),
               FALSE,
               [canon EXCEPT !.servers = Append(canon.servers, NewServer(entry))])

\* Marketplace.InstallServer(serverEntry, canonical)
InstallServer(entry, saveFails) ==
  StoreOutcome(StoreCall("InstallServer", entry.name, <<>>, saveFails),
               \E i \in 1..Len(canon.servers) : canon.servers[i].name = entry.name,
               [canon EXCEPT !.servers = Append(canon.servers, NewServer(entry))])

\* The slices CheckServers(context.Background(), servers) can return: slot k
\* holds a result of CheckServer for servers[k].
CheckServersResults(servers) ==
  {res \in [1..Len(servers) -> UNION {CheckServer(servers[k], FALSE) : k \in 1..Len(servers)}] :
     \A k \in 1..Len(servers) : res[k] \in CheckServer(servers[k], FALSE)}

\* App.Health(client, serverFilter, fix, jsonOutput) as one step, res being
\* the slice CheckServers returned.
Health(client, filter, fix, saveFails, checked, res) ==
  LET call == [StoreCall("Health", "", <<>>, saveFails) EXCEPT !.saveFails = FALSE]
      nothing == \/ ~fix
                 \/ \A k \in 1..Len(res) : res[k].status = StatusHealthy
  IN IF checked = <<>>
       THEN StoreOutcome(call, TRUE, canon)
     ELSE IF nothing
       THEN /\ probe' = call /\ last' = LastNone /\ ops' = ops + 1
            /\ UNCHANGED <<canon, files, dirs, backups, now>>
     ELSE StoreOutcome([call EXCEPT !.saveFails = saveFails], FALSE,
                       [canon EXCEPT !.servers = HandleHealthFixes(canon.servers, res)])

(***************************************************************************)
(* Batches checked.                                                        *)
(***************************************************************************)
\* Number of servers of the batches whose context may be cancelled.
NumServers == 3

SrvName(k) == <<"s", ToString(k)>>

\* Health specs and commands a server of a batch may have.
HealthDefault == NoHealth
HealthRetry2 == [set |-> TRUE, type |-> "stdio", url |-> "", timeoutMs |-> 1000, retries |-> 2]
HealthHttp == [set |-> TRUE, type |-> "http", url |-> "http://h", timeoutMs |-> 0, retries |-> 0]
HealthUnknown == [set |-> TRUE, type |-> "grpc", url |-> "", timeoutMs |-> 0, retries |-> 0]

ServerKinds ==
  { [command |-> "serve", health |-> HealthDefault],
    [command |-> "false", health |-> HealthRetry2],
    [command |-> "serve", health |-> HealthHttp],
    [command |-> "serve", health |-> HealthUnknown] }

Batches(n) ==
  { [k \in 1..n |-> Server(SrvName(k), kinds[k].command, TRUE, kinds[k].health)]
      : kinds \in [1..n -> ServerKinds] }

\* A batch larger than the semaphore: SemCap + 1 servers whose checks end.
BigBatch ==
  [k \in 1..(SemCap + 1) |->
     Server(SrvName(k),
            IF k % 3 = 0 THEN "false" ELSE "serve",
            TRUE,
            IF k % 3 = 0 THEN HealthRetry2 ELSE HealthDefault)]

(***************************************************************************)
(* Initial states.                                                         *)
(***************************************************************************)
VCS == <<"v", "c", "s">>
GONE == <<"g", "o", "n", "e">>
FOO == <<"f", "o", "o">>
BIG == <<"b", "i", "g">>

Github(on) ==
  [Server(GITHUB, "serve", on, NoHealth) EXCEPT !.tags = <<VCS>>, !.args = <<"-y">>]
Gitlab(on) ==
  [Server(GITLAB, "false", on, HealthRetry2) EXCEPT !.tags = <<VCS>>]

\* The canonical documents the commands start from.
CanonDocs ==
  { [servers |-> ss, profiles |-> [p \in {"work"} |-> <<GITHUB, GONE>>]] :
      ss \in {<<Github(FALSE)>>, <<Github(TRUE), Gitlab(FALSE)>>} }

\* A client file written by the user: a server of their own, a stale entry
\* named like a canonical server, and two settings of their own.
Sample ==
  JsonFile(TRUE,
           << [k |-> CUSTOM, v |-> Entry("mine", <<>>, <<>>, FALSE, "url")],
              [k |-> GITHUB, v |-> Entry("old", <<"x">>, <<>>, FALSE, "")] >>,
           << [k |-> FOO, v |-> StrVal("bar")],
              [k |-> BIG, v |-> NumVal(<<Exact53Hi, Exact53Lo + 1>>)] >>)

\* At most this many clients are installed.
MaxInstalled == 1
\* At most this many commands are run.
MaxOps == 2

\* The health engine at rest.
HealthIdle == CheckServersInit(<<>>)

\* No function has been called on its own.
NoProbe == [fn |-> "none"]

\* No command has run.
ReconIdle(doc, fs, ds) ==
  /\ probe = NoProbe
  /\ canon = doc
  /\ files = fs
  /\ dirs = ds
  /\ backups = [c \in Clients |-> NoBackups]
  /\ now = 0
  /\ last = LastNone
  /\ ops = 0

NoClients == [c \in Clients |-> NoFile]

Init ==
  /\ \E doc \in CanonDocs, fs \in [Clients -> {NoFile, Sample, Garbage}],
        ds \in SUBSET {"cline", "warp"} :
       /\ \A c \in {"cline", "warp"} : fs[c].exists => c \in ds
       /\ Cardinality({c \in Clients : Detect(c, fs, ds)}) <= MaxInstalled
       /\ ReconIdle(doc, fs, ds)
  /\ HealthIdle

Installed == {c \in Clients : Detect(c, files, dirs)}

\* The answers that matter: -y only when the query is ambiguous, a selection
\* only when SelectBest prompts.
AssumeChoices(query) ==
  IF SelectBest(query, IndexOf(canon.servers), FALSE, "").prompted
  THEN BOOLEAN ELSE {FALSE}
SelChoices(query, assumeYes) ==
  IF SelectBest(query, IndexOf(canon.servers), assumeYes, "").prompted
  THEN Selections ELSE {""}

\* What may fail in one command: config.Save, or one file operation on an
\* installed client.
Failures(save) ==
  {[save |-> FALSE, io |-> IoNone]}
    \cup {[save |-> TRUE, io |-> IoNone] : x \in {1 : y \in {1} \cap (IF save THEN {1} ELSE {})}}
    \cup {[save |-> FALSE, io |-> [c |-> c, kind |-> k]] : c \in Installed, k \in {"backup", "write"}}

Queries == {<<"g", "i", "t">>, <<"z">>}

\* mseep enable|disable|toggle <query> [--client c] [-y]. A command whose query
\* resolves to nothing reads none of its other arguments.
ToggleStep ==
  /\ ops < MaxOps
  /\ \E query \in Queries :
       \E assumeYes \in AssumeChoices(query) :
       \E sel \in SelChoices(query, assumeYes) :
         IF SelectBest(query, IndexOf(canon.servers), assumeYes, sel).err
         THEN Toggle("enable", query, "", assumeYes, sel, FALSE, IoNone)
         ELSE \E mode \in Modes, client \in Installed \cup {"", "emacs"},
                 f \in Failures(TRUE) :
                Toggle(mode, query, client, assumeYes, sel, f.save, f.io)
  /\ UNCHANGED <<hvars, probe>>

\* mseep apply [--client c] [--profile p] [-y]. A command whose profile does
\* not exist reads none of its other arguments.
ApplyStep ==
  /\ ops < MaxOps
  /\ \E profile \in {"", "work", "nope"} :
       IF profile \notin DOMAIN canon.profiles \cup {""}
       THEN Apply("emacs", profile, TRUE, <<"y">>, FALSE, IoNone, <<"emacs">>)
       ELSE \E client \in Installed \cup {"", "emacs"}, autoApprove \in BOOLEAN,
               f \in Failures(profile # "") :
              \E resp \in (IF autoApprove THEN {<<"y">>} ELSE Responses),
                 order \in (IF client \in {"", "all"} THEN Perms(Installed)
                            ELSE {<<client>>}) :
                Apply(client, profile, autoApprove, resp, f.save, f.io, order)
  /\ UNCHANGED <<hvars, probe>>

TickStep == Tick /\ UNCHANGED <<hvars, probe>>

Next == ToggleStep \/ ApplyStep \/ TickStep

\* The commands run one after another on the canonical store and the files.
Spec == Init /\ [][Next]_vars

\* Claude Desktop and VS Code are both installed, each with a config file.
PairInit ==
  /\ \E doc \in CanonDocs, fs \in [Clients -> {NoFile, Sample, Garbage}] :
       /\ \A c \in Clients : fs[c].exists <=> c \in {"claude", "vscode"}
       /\ ReconIdle(doc, fs, {})
  /\ HealthIdle

\* The commands on a machine with two clients.
SpecPair == PairInit /\ [][Next]_vars

HealthInit ==
  /\ \E b \in Batches(NumServers) : CheckServersInit(b)
  /\ ReconIdle([servers |-> <<>>, profiles |-> EmptyMap], NoClients, {})

HealthNext ==
  \/ \E k \in 1..N : Acquire(k)
  \/ \E k \in 1..N : Finish(k)
  \/ MRecv
  \/ MCancelled
  \/ MReturn
  \/ Cancel

\* Batches of NumServers servers; the caller may cancel the context.
SpecHealth == HealthInit /\ [][HealthNext]_vars

BatchInit ==
  /\ CheckServersInit(BigBatch)
  /\ ReconIdle([servers |-> <<>>, profiles |-> EmptyMap], NoClients, {})

BatchNext ==
  \/ \E k \in 1..N : Acquire(k)
  \/ \E k \in 1..N : Finish(k)
  \/ MRecv
  \/ MReturn

\* A batch of SemCap + 1 servers under a context that is never cancelled.
\* The Go scheduler runs every runnable goroutine.
SpecBatch == BatchInit /\ [][BatchNext]_vars /\ WF_vars(BatchNext)

\* The canonical servers of a health run: one whose command keeps running,
\* one whose command exits 1, one checked over HTTP.
HealthDocs ==
  { [servers |-> << Github(a), Gitlab(b),
                    [Server(CUSTOM, "serve", c, HealthHttp) EXCEPT !.tags = <<FOO>>] >>,
     profiles |-> EmptyMap] : a, b, c \in BOOLEAN }

\* mseep health [--client c] [--server filter] [--fix]: the arguments, the
\* canonical document and Claude's file, at the start of CheckServers.
FixInit ==
  \E doc \in HealthDocs, claudeFile \in {NoFile, Sample, Garbage},
     client \in {"", "claude", "cline"}, filter \in {<<>>, <<"L", "a", "b">>, FOO},
     fix \in BOOLEAN, saveFails \in BOOLEAN :
    /\ client # "claude" => claudeFile = NoFile
    /\ saveFails => fix
    /\ canon = doc
    /\ files = [NoClients EXCEPT !["claude"] = claudeFile]
    /\ dirs = {}
    /\ backups = [c \in Clients |-> NoBackups]
    /\ now = 0 /\ last = LastNone /\ ops = 0
    /\ probe = [fn |-> "Health", client |-> client, filter |-> filter, fix |-> fix,
                saveFails |-> saveFails, stored |-> doc]
    /\ CheckServersInit(ServersForHealthCheck(doc.servers, files, dirs, client, filter))

FixNext ==
  \/ \E k \in 1..N : Acquire(k)
  \/ \E k \in 1..N : Finish(k)
  \/ MRecv
  \/ MReturn
  \/ HealthFinish

\* One run of App.Health: ctx is context.Background(), never cancelled.
SpecFix == FixInit /\ [][FixNext]_vars

\* At most this many commands are run on the canonical store.
MaxStoreOps == 3

\* Marketplace entries offered for install.
MarketEntries ==
  { [name |-> GITHUB, command |-> "serve", tags |-> <<VCS>>],
    [name |-> CUSTOM, command |-> "false", tags |-> <<FOO>>] }

\* Profile names and member lists given on the command line.
ProfileNames == {"", "work", "dev"}
MemberLists == {<<>>, <<GITHUB>>, <<GITLAB, GONE>>}

\* No client is installed: the commands act on the canonical store alone.
StoreInit ==
  /\ \E doc \in CanonDocs : ReconIdle(doc, NoClients, {})
  /\ HealthIdle

StoreToggle ==
  /\ ops < MaxStoreOps
  /\ \E query \in Queries, mode \in Modes, saveFails \in BOOLEAN :
       Toggle(mode, query, "", TRUE, "", saveFails, IoNone)
  /\ probe' = [fn |-> "Toggle"]
  /\ UNCHANGED hvars

StoreApply ==
  /\ ops < MaxStoreOps
  /\ \E profile \in ProfileNames \ {""}, saveFails \in BOOLEAN :
       Apply("", profile, TRUE, <<"y">>, saveFails, IoNone, <<>>)
  /\ probe' = [fn |-> "Apply"]
  /\ UNCHANGED hvars

StoreCreateProfile ==
  /\ ops < MaxStoreOps
  /\ \E name \in ProfileNames, members \in MemberLists, saveFails \in BOOLEAN :
       CreateProfile(name, members, saveFails)
  /\ UNCHANGED hvars

StoreUpdateProfile ==
  /\ ops < MaxStoreOps
  /\ \E name \in ProfileNames, members \in MemberLists, saveFails \in BOOLEAN :
       UpdateProfile(name, members, saveFails)
  /\ UNCHANGED hvars

StoreDeleteProfile ==
  /\ ops < MaxStoreOps
  /\ \E name \in ProfileNames, saveFails \in BOOLEAN : DeleteProfile(name, saveFails)
  /\ UNCHANGED hvars

StoreInstall ==
  /\ ops < MaxStoreOps
  /\ \E entry \in MarketEntries, saveFails \in BOOLEAN : InstallServer(entry, saveFails)
  /\ UNCHANGED hvars

StoreHealth ==
  /\ ops < MaxStoreOps
  /\ \E filter \in {<<>>, FOO}, fix \in BOOLEAN, saveFails \in BOOLEAN :
       LET checked == ServersForHealthCheck(canon.servers, files, dirs, "", filter)
       IN \E res \in CheckServersResults(checked) :
            Health("", filter, fix, saveFails, checked, res)
  /\ UNCHANGED hvars

StoreNext ==
  \/ StoreToggle
  \/ StoreApply
  \/ StoreCreateProfile
  \/ StoreUpdateProfile
  \/ StoreDeleteProfile
  \/ StoreInstall
  \/ StoreHealth

\* Commands that change the canonical document, one after another.
SpecStore == StoreInit /\ [][StoreNext]_vars

(***************************************************************************)
(* Single calls of the functions of the program.                           *)
(***************************************************************************)
\* The largest retry count of a health spec.
MaxRetries == 3

\* The health specs a server may carry: none, or a type, a URL, a timeout
\* and a retry count (0 stands for an unset field).
ProbeHealth ==
  {NoHealth} \cup
  [set : {TRUE}, type : {"stdio", "http", "tcp", "grpc"}, url : {"", "http://h"},
   timeoutMs : {0, 400, 1000, 1200}, retries : 0..MaxRetries]

ProbeServers ==
  {Server(SrvName(1), c, TRUE, h) : c \in {"serve", "true", "false", "absent", ""},
                                    h \in ProbeHealth}

CallsIdle ==
  /\ HealthIdle
  /\ ReconIdle([servers |-> <<>>, profiles |-> EmptyMap], NoClients, {})

\* m.CheckServer(ctx, srv) under a context that is or is not cancelled meanwhile.
CallCheckServer ==
  /\ probe = NoProbe
  /\ \E srv \in ProbeServers, mayCancel \in BOOLEAN :
       \E run \in CheckServerRuns(srv, mayCancel) :
         probe' = [fn |-> "CheckServer", srv |-> srv, mayCancel |-> mayCancel, run |-> run]
  /\ UNCHANGED <<hvars, rvars>>

\* The strings scoreOne is called on: every string of at most MaxStrLen
\* characters of Letters, a query of 21 tokens "a" and a target of 82 characters.
Letters == {"a", "A", "b", " "}
MaxStrLen == 2
Strings == UNION {[1..k -> Letters] : k \in 0..MaxStrLen}

RECURSIVE Rep(_, _)
Rep(str, n) == IF n = 0 THEN <<>> ELSE str \o Rep(str, n - 1)

ManyTokens == Rep(<<"a", " ">>, 21)
LongTarget == <<"a">> \o Rep(<<"b">>, 81)

CallScoreOne ==
  /\ probe = NoProbe
  /\ \E q \in Strings \cup {ManyTokens}, str \in Strings \cup {LongTarget} :
       probe' = [fn |-> "scoreOne", q |-> q, s |-> str, out |-> scoreOne(q, str)]
  /\ UNCHANGED <<hvars, rvars>>

\* The entities Candidates and SelectBest are called on.
GIT == <<"g", "i", "t">>
Named(name) == [name |-> name, aliases |-> <<>>, tags |-> <<>>]
Padded(n) == Named(GIT \o Rep(<<"x">>, n))
EntityPool ==
  { [name |-> GITHUB, aliases |-> << <<"g", "h">> >>, tags |-> <<VCS>>],
    [name |-> GITLAB, aliases |-> <<>>, tags |-> <<VCS>>],
    Padded(1), Padded(6), Padded(7),
    Named(<<"g">> \o Rep(<<"x">>, 85)) }

\* At most this many entities in a list drawn from the pool.
MaxEntities == 3
EntityLists == UNION {[1..k -> EntityPool] : k \in 0..MaxEntities}

\* Thirteen entities, more than the insertion sort takes: "gitx", eleven
\* longer names of different lengths, and "gity".
BigIndex ==
  [k \in 1..(InsertionSortMax + 1) |->
     IF k <= InsertionSortMax THEN Padded(k) ELSE Named(GIT \o <<"y">>)]

FuzzyQueries ==
  {GIT, <<" ", "G", "i", "t", "X", " ">>, <<"g">>, VCS, <<" ">>,
   GIT \o <<" ">> \o <<"h", "u", "b">>}

CallCandidates ==
  /\ probe = NoProbe
  /\ \E query \in FuzzyQueries, idx \in EntityLists \cup {BigIndex} :
       \E out \in CandidateLists(query, idx) :
         probe' = [fn |-> "Candidates", query |-> query, idx |-> idx, out |-> out]
  /\ UNCHANGED <<hvars, rvars>>

\* SelectBest(query, idx, assumeYes); resp is what the user types if asked.
CallSelectBest ==
  /\ probe = NoProbe
  /\ \E query \in FuzzyQueries, idx \in EntityLists \cup {BigIndex},
        assumeYes \in BOOLEAN, resp \in Selections :
       \E cands \in CandidateLists(query, idx) :
         probe' = [fn |-> "SelectBest", query |-> query, idx |-> idx,
                   assumeYes |-> assumeYes, resp |-> resp, cands |-> cands,
                   out |-> SelectFrom(cands, assumeYes, resp)]
  /\ UNCHANGED <<hvars, rvars>>

\* Health specs whose integers are not what the program expects: the JSON
\* file may hold a negative retry count or a negative timeout.
OddHealth ==
  [set : {TRUE}, type : {"stdio", "http"}, url : {"http://h"},
   timeoutMs : {-100, 0, 1000}, retries : {-1, 0, 2}]
    \ ProbeHealth

\* m.CheckServer(ctx, srv) on a server with such a health spec.
CallCheckServerOdd ==
  /\ probe = NoProbe
  /\ \E c \in {"serve", "false"}, h \in OddHealth, mayCancel \in BOOLEAN :
       \E run \in CheckServerRuns(Server(SrvName(1), c, TRUE, h), mayCancel) :
         probe' = [fn |-> "CheckServerOdd", srv |-> Server(SrvName(1), c, TRUE, h),
                   mayCancel |-> mayCancel, run |-> run]
  /\ UNCHANGED <<hvars, rvars>>

\* Milliseconds left on the check context when the stdio check starts.
Remaining == {0, 400, GraceMs, 1200, DefaultTimeoutMs}

\* StdioChecker.Check(ctx, server)
CallStdioCheck ==
  /\ probe = NoProbe
  /\ \E c \in {"serve", "true", "false", "absent", ""}, remaining \in Remaining,
        cancel \in {"no", "before", "during"} :
       \E run \in StdioRuns(Server(SrvName(1), c, TRUE, NoHealth), remaining, cancel) :
         probe' = [fn |-> "StdioCheck", command |-> c, remaining |-> remaining,
                   cancel |-> cancel, run |-> run]
  /\ UNCHANGED <<hvars, rvars>>

\* The files a client may have at its path.
ClientFiles == {NoFile, Garbage, Sample, JsonFile(FALSE, <<>>, <<>>)}

\* Adapter.Load() of client c.
CallLoad ==
  /\ probe = NoProbe
  /\ \E c \in Clients, file \in ClientFiles :
       probe' = [fn |-> "Load", client |-> c, file |-> file, out |-> Load(c, file)]
  /\ UNCHANGED <<hvars, rvars>>

\* The files that may be at the canonical path.
CanonFiles ==
  {CanonMissing, CanonUnreadable, CanonGarbage}
    \cup {CanonJson(hs, IF hs THEN ss ELSE <<>>, hp, IF hp THEN ps ELSE EmptyMap, v) :
            hs \in BOOLEAN, ss \in {<<>>, <<Github(TRUE)>>}, hp \in BOOLEAN,
            ps \in {EmptyMap, "work" :> <<GITHUB>>}, v \in {"", "1"}}

\* config.Load("") and LoadApp() on the file at the canonical path.
CallConfigLoad ==
  /\ probe = NoProbe
  /\ \E file \in CanonFiles :
       probe' = [fn |-> "config.Load", file |-> file, out |-> ConfigLoad(file),
                 app |-> LoadApp(file)]
  /\ UNCHANGED <<hvars, rvars>>

CallsNext ==
  \/ CallCheckServer
  \/ CallScoreOne
  \/ CallCandidates
  \/ CallSelectBest
  \/ CallLoad
  \/ CallConfigLoad
  \/ CallStdioCheck
  \/ CallCheckServerOdd

\* One call of one function, on arguments drawn from the sets above.
SpecCalls == CallsIdle /\ [][CallsNext]_vars

(***************************************************************************)
(* Properties of the reconciliation (Spec).                                *)
(***************************************************************************)
\* What the last command did to client c.
Run(c) == last.runs[c]

\* The last command wrote c's file.
Wrote(c) == \E i \in 1..Len(Run(c).events) : Run(c).events[i] = "write"

\* The names in the server map of a file, and the descriptor under a name.
Names(f) == {f.srv[i].k : i \in 1..Len(f.srv)}
EntryOf(f, n) == f.srv[CHOOSE i \in 1..Len(f.srv) : f.srv[i].k = n].v

\* The members of the server map of f that are named like no canonical server.
UnmanagedOf(f, servers) ==
  {m \in {f.srv[i] : i \in 1..Len(f.srv)} : m.k \notin CanonNames(servers)}

\* f has the top-level member "foo": "bar".
HasFoo(f) == \E i \in 1..Len(f.other) : f.other[i] = [k |-> FOO, v |-> StrVal("bar")]

\* C1: whenever a command has written a client's file, the entries of the
\* written server map that are named like no canonical server are exactly those
\* of the file before the command, descriptors unchanged.
C1_UnmanagedPassthrough ==
  \A c \in Clients :
    Wrote(c) => UnmanagedOf(files[c], canon.servers)
                  = UnmanagedOf(Run(c).fileBefore, canon.servers)

\* C2: when App.Apply asked, the two serializations differed and the answer
\* was not y/yes, the client's file is what it was before the command and no
\* backup was made.
C2_DeniedNoSideEffects ==
  \A c \in Clients :
    (/\ last.op = "apply"
     /\ Run(c).prompted /\ ~Run(c).approved /\ Run(c).fail # "read"
     /\ Run(c).before # Run(c).after)
    => files[c] = Run(c).fileBefore /\ Run(c).events = <<>>

\* C3: when a reconciliation computed an after state equal to the before
\* state, it made no backup and did not write the client's file.
C3_NoChangeNoOp ==
  \A c \in Clients :
    Run(c).loaded /\ Run(c).before = Run(c).after => Run(c).events = <<>>

\* C4: after a merge was written, a canonical server is in the client's file
\* exactly if it is enabled, and then with the canonical command, args and env.
C4_CanonicalAuthoritative ==
  \A c \in Clients :
    Wrote(c) =>
      \A i \in 1..Len(canon.servers) :
        /\ canon.servers[i].name \in Names(files[c]) <=> canon.servers[i].enabled
        /\ canon.servers[i].enabled =>
             /\ EntryOf(files[c], canon.servers[i].name).command = canon.servers[i].command
             /\ EntryOf(files[c], canon.servers[i].name).args = canon.servers[i].args
             /\ EntryOf(files[c], canon.servers[i].name).env = canon.servers[i].env

\* A file that held another descriptor under "github" now holds the canonical one.
C4_Witness ==
  \E c \in Clients :
    /\ Wrote(c)
    /\ GITHUB \in Names(Run(c).fileBefore)
    /\ EntryOf(Run(c).fileBefore, GITHUB).command = "old"
    /\ GITHUB \in Names(files[c])
    /\ EntryOf(files[c], GITHUB).command = "serve"

\* The reconciliation of c by the last command ran to its end: it wrote the
\* file, or found nothing to change.
Reconciled(c) == Run(c).loaded /\ (Wrote(c) \/ Run(c).before = Run(c).after)

\* A command that reconciles c the way the command before it did, with the
\* canonical servers that one left.
SameAgain(c) ==
  /\ ops' = ops + 1
  /\ Reconciled(c)
  /\ canon'.servers = canon.servers
  /\ last'.runs[c].loaded
  /\ last'.runs[c].route = Run(c).route

\* C5: the second of two successive reconciliations with no canonical change
\* computes an after state equal to its before state, and equal to the first
\* one's result.
C5_Idempotence ==
  [][\A c \in Clients :
       SameAgain(c) => /\ last'.runs[c].after = last'.runs[c].before
                       /\ last'.runs[c].after = Run(c).after]_vars

\* A second command left the canonical servers alone and found the file as
\* a first one wrote it (no initial file is in its serialized form).
C5_Witness ==
  \E c \in Clients :
    /\ ops = 2
    /\ last.serversBefore = canon.servers
    /\ Run(c).loaded
    /\ Run(c).fileBefore = Run(c).after
    /\ Run(c).before = Run(c).after

\* C6: a reconciliation that wrote over an existing file first made a backup
\* holding the old content; one whose backup failed wrote nothing and
\* returned the error; one that found no file made no backup, and wrote.
C6_BackupPrecedesWrite ==
  \A c \in Clients :
    /\ Wrote(c) /\ Run(c).fileBefore.exists =>
         /\ Run(c).events = <<"backup", "write">>
         /\ \E t \in 0..MaxTime : backups[c][t] = Run(c).fileBefore
    /\ Run(c).fail = "backup" =>
         /\ Run(c).err
         /\ Run(c).events = <<>>
         /\ files[c] = Run(c).fileBefore
         /\ Run(c).fileBefore.exists
    /\ Wrote(c) /\ ~Run(c).fileBefore.exists =>
         /\ Run(c).events = <<"write">>
         /\ Run(c).fail \notin {"backup", "write"}

\* Both cases have happened: a file overwritten after its backup ...
C6_Witness ==
  \E c \in Clients :
    /\ Wrote(c) /\ Run(c).fileBefore.exists
    /\ Run(c).events = <<"backup", "write">>
    /\ files[c] # Run(c).fileBefore

\* C7: when a command has written the settings file of vscode or cursor,
\* every top-level member other than "mcp.servers" that the file had before
\* is in the written file with the same value.
C7_OpaqueSettingsPreserved ==
  \A c \in SettingsClients :
    Wrote(c) =>
      \A i \in 1..Len(Run(c).fileBefore.other) :
        \E j \in 1..Len(files[c].other) : files[c].other[j] = Run(c).fileBefore.other[i]

\* C8: an enable of "git", when the only canonical server is a disabled
\* "github", enables it, and the file of a client it reconciled holds "github"
\* with the canonical command and still holds the member "foo": "bar" it had.
C8_EndToEndEnable ==
  \A c \in Clients :
    (/\ last.op = "toggle" /\ last.mode = "enable" /\ last.query = <<"g", "i", "t">>
     /\ Len(last.serversBefore) = 1
     /\ last.serversBefore[1].name = GITHUB /\ ~last.serversBefore[1].enabled
     /\ Run(c).ran /\ ~Run(c).err
     /\ HasFoo(Run(c).fileBefore))
    => /\ canon.servers[1].enabled
       /\ GITHUB \in Names(files[c])
       /\ EntryOf(files[c], GITHUB).command = canon.servers[1].command
       /\ HasFoo(files[c])

\* C13: when a command that reconciles several clients fails on one of them,
\* every client of the run (last.targets: the detected clients it was to
\* apply to) has still been applied, and the command reports the failure.
C13_FailureIsolation ==
  (\E d \in last.targets : Run(d).err) =>
    /\ \A c \in last.targets : Run(c).ran
    /\ last.err

(***************************************************************************)
(* Properties of CheckServers (SpecHealth, SpecBatch).                     *)
(***************************************************************************)
\* C9: when CheckServers returns because the context was cancelled, the slot
\* of every server whose check has not produced a result holds the timeout
\* result with that server's name.
C9_CancelFillsUnfinished ==
  mpc = "cancelled" =>
    \A j \in 1..N : wpc[j] # "exited" => results[j] = CancelledResult(j)

\* Slot i holds a result for servers[i].
Aligned(i) == results[i].name = hsrv[i].name /\ results[i].status \in Statuses

\* What is left to do: two steps for a goroutine not yet in the semaphore,
\* one for a running check, one receive for each server, and the return.
Measure ==
  2 * Cardinality({k \in 1..N : wpc[k] = "spawned"})
    + Cardinality({k \in 1..N : wpc[k] = "checking"})
    + (N - mi)
    + (IF mpc = "wait" THEN 1 ELSE 0)

\* Until CheckServers has returned some step can be taken; a goroutine that
\* has finished has left its result in its own slot; the returned slice is
\* aligned with the servers.
BatchInv ==
  /\ N > SemCap
  /\ ~ctxDone
  /\ ~Returned => ENABLED BatchNext
  /\ \A k \in 1..N : wpc[k] = "exited" => Aligned(k)
  /\ mpc = "returned" => \A i \in 1..N : Aligned(i)

\* C10: a batch of more servers than the semaphore admits, never cancelled,
\* returns (some step is always possible before the return and every step
\* brings it nearer), and every slot i of the returned slice holds a result
\* for servers[i], in whatever order the goroutines finish.
C10_CompleteAndAligned == []BatchInv /\ [][Measure' < Measure]_vars

\* CheckServers has returned the aligned slice of a batch larger than the cap.
C10_Witness ==
  /\ mpc = "returned"
  /\ N > SemCap
  /\ \A i \in 1..N : Aligned(i)
  /\ \E i \in 1..N : results[i].status # StatusHealthy

\* The goroutines that are inside m.CheckServer.
Checking == {k \in 1..N : wpc[k] = "checking"}

\* C11: at every moment of a CheckServers call at most SemCap (10) checks are
\* in progress: every goroutine inside CheckServer holds one semaphore token,
\* a goroutine that has not acquired one or has returned holds none.
C11_BoundedConcurrency ==
  /\ Cardinality(Checking) <= SemCap
  /\ sem = Cardinality(Checking)

\* The semaphore is full and a goroutine of the batch is waiting for a slot.
C11_Witness ==
  /\ N > SemCap
  /\ Cardinality(Checking) = SemCap
  /\ \E k \in 1..N : wpc[k] = "spawned" /\ ~ENABLED Acquire(k)

(***************************************************************************)
(* Properties of single calls (SpecCalls).                                 *)
(***************************************************************************)
\* The retry count CheckServer works with: 1 when the count is unset.
RetriesOf(srv) == IF srv.health.set /\ srv.health.retries # 0 THEN srv.health.retries ELSE 1

\* CheckServer was called on a server whose check type is registered.
Checked == probe.fn = "CheckServer" /\ HealthSpecOf(probe.srv).type \in Checkers

\* C12: CheckServer makes at least one and at most `retries` attempts (1 when
\* the count is unset), none after a healthy one; the status it reports is
\* timeout when its context expired in the wait between two attempts, and the
\* status of its last attempt otherwise; with retries 2 and a command that
\* exits 1 at once, under a context nobody cancels, it makes two attempts and
\* reports unhealthy.
C12_RetryPolicy ==
  Checked =>
    LET tries == probe.run.tries
        n == Len(probe.run.tries)
    IN /\ n >= 1 /\ n <= RetriesOf(probe.srv)
       /\ \A i \in 1..(n - 1) : tries[i] # StatusHealthy
       /\ probe.run.expired => probe.run.res.status = StatusTimeout
       /\ ~probe.run.expired => probe.run.res.status = tries[n]
       /\ (/\ probe.srv.command = "false" /\ probe.srv.health = HealthRetry2
           /\ ~probe.mayCancel)
          => tries = <<StatusUnhealthy, StatusUnhealthy>>
             /\ probe.run.res.status = StatusUnhealthy

\* A check that failed, waited, failed again with another status and
\* reported the second failure.
C12_Witness ==
  /\ Checked
  /\ ~probe.run.expired
  /\ Len(probe.run.tries) = 2
  /\ probe.run.tries[1] # probe.run.tries[2]
  /\ probe.run.tries[1] # StatusHealthy
  /\ probe.run.res.status = probe.run.tries[2]

\* The place of an entry of a returned list among the entities given: some
\* entity a before some entity b of idx are the entries x and y.
InOrder(idx, x, y) ==
  \E a, b \in 1..Len(idx) : a < b /\ idx[a] = x.index /\ idx[b] = y.index

\* C14: the list Candidates returns is in non-increasing order of score, holds
\* only scores above 0, and has one entry for each entity whose best score
\* over name, aliases and tags is above 0.
C14_SortedPositive ==
  probe.fn = "Candidates" =>
    /\ \A i \in 1..Len(probe.out) : probe.out[i].score > 0
    /\ \A i, j \in 1..Len(probe.out) : i < j => probe.out[i].score >= probe.out[j].score
    /\ Len(probe.out) =
         Cardinality({i \in 1..Len(probe.idx) :
                        BestScore(TrimSpace(probe.query), probe.idx[i]) > 0})

\* Candidates moved a higher score in front of a lower one and left out an
\* entity whose score is negative.
C14_Witness ==
  /\ probe.fn = "Candidates"
  /\ Len(probe.out) = 2 /\ Len(probe.idx) = 3
  /\ probe.out[1].score > probe.out[2].score
  /\ probe.out[1].index = probe.idx[3]
  /\ BestScore(TrimSpace(probe.query), probe.idx[1]) < 0

\* C15: two entries of the list Candidates returns that have the same score
\* are in the order the entities were given in, whatever the length of the list.
C15_StableRanking ==
  probe.fn = "Candidates" =>
    \A i, j \in 1..Len(probe.out) :
      i < j /\ probe.out[i].score = probe.out[j].score
        => probe.out[i].index = probe.out[j].index
           \/ InOrder(probe.idx, probe.out[i], probe.out[j])

\* a and b are the same string once surrounding white space is dropped and
\* upper and lower case are taken as one.
EqualFold(a, b) ==
  LET same(x, y) == Len(x) = Len(y) /\ \A i \in 1..Len(x) : LowerChar(x[i]) = LowerChar(y[i])
  IN same(TrimSpace(a), TrimSpace(b))

\* C16: scoreOne(q, s) is 100 only when q and s are equal ignoring case and
\* surrounding white space; a q that is not s, whether it matches s as a
\* substring or token by token, scores below 100.
C16_OnlyExactIsHundred ==
  probe.fn = "scoreOne" =>
    /\ probe.out = 100 => EqualFold(probe.q, probe.s)
    /\ ~EqualFold(probe.q, probe.s) => probe.out < 100

\* C17: SelectBest with assumeYes set does not ask; when Candidates returned
\* at least one entry it returns the entity of the first one, whose score no
\* other entry exceeds, and when it returned none it fails.
C17_AssumeYesTakesTop ==
  probe.fn = "SelectBest" /\ probe.assumeYes =>
    /\ ~probe.out.prompted
    /\ Len(probe.cands) = 0 => probe.out.err
    /\ Len(probe.cands) >= 1 =>
         /\ ~probe.out.err
         /\ probe.out.index = probe.cands[1].index
         /\ \A i \in 1..Len(probe.cands) : probe.cands[1].score >= probe.cands[i].score

\* Two different entities tie at the top, assumeYes is set: the first is
\* returned and the answer "2" is never read.
C17_Witness ==
  /\ probe.fn = "SelectBest" /\ probe.assumeYes /\ probe.resp = "2"
  /\ Len(probe.cands) >= 2
  /\ probe.cands[1].score = probe.cands[2].score
  /\ probe.cands[1].index # probe.cands[2].index
  /\ probe.out.index = probe.cands[1].index

\* The candidates that score within 5 points of the first, in ranked order.
Band(cands) ==
  LET near(c) == cands[1].score - c.score <= 5
  IN SelectSeq(cands, near)

\* C18: SelectBest with assumeYes unset and two or more candidates returns
\* the first without asking exactly when the second scores more than 5 points
\* below it; otherwise it asks, offering the candidates within 5 points of
\* the first in ranked order, and returns the one chosen or fails on an answer
\* that names none.
C18_AmbiguityBand ==
  probe.fn = "SelectBest" /\ ~probe.assumeYes /\ Len(probe.cands) >= 2 =>
    /\ ~probe.out.prompted <=> probe.cands[1].score - probe.cands[2].score > 5
    /\ ~probe.out.prompted => ~probe.out.err /\ probe.out.index = probe.cands[1].index
    /\ probe.out.prompted =>
         /\ probe.out.offered = Band(probe.cands)
         /\ ~probe.out.err => \E k \in 1..Len(Band(probe.cands)) :
                                 probe.out.index = Band(probe.cands)[k].index

\* "git" against github and gitlab: both score 77 and both are offered.
C18_Witness ==
  /\ probe.fn = "SelectBest" /\ ~probe.assumeYes
  /\ probe.query = GIT
  /\ Len(probe.idx) = 2
  /\ probe.idx[1].name = GITHUB /\ probe.idx[2].name = GITLAB
  /\ probe.out.prompted
  /\ Len(probe.out.offered) = 2
  /\ probe.out.offered[1].score = 77 /\ probe.out.offered[2].score = 77
  /\ probe.out.offered[1].index = probe.idx[1]
  /\ probe.out.offered[2].index = probe.idx[2]

(***************************************************************************)
(* App.Health and its fix                                                   *)
(***************************************************************************)
\* Health has returned.
HealthDone == last.op = "health"

\* The canonical entity at position i was checked and its result is not
\* healthy.
NotHealthy(i) ==
  \E k \in 1..N : /\ hsrv[k].name = last.serversBefore[i].name
                   /\ results[k].status # StatusHealthy

\* What a health run that has returned without error leaves behind.
HealthEffect ==
  (HealthDone /\ ~last.err) =>
    /\ Len(canon.servers) = Len(last.serversBefore)
    /\ ~probe.fix => canon.servers = last.serversBefore /\ ~last.saved
    /\ probe.fix =>
         /\ \A i \in 1..Len(canon.servers) :
              canon.servers[i] = IF NotHealthy(i)
                                 THEN [last.serversBefore[i] EXCEPT !.enabled = FALSE]
                                 ELSE last.serversBefore[i]
         /\ probe.stored = canon

\* C19: Health changes the canonical document only if fix is set; with fix,
\* once Health has returned every checked entity whose result is not healthy
\* is disabled and the stored document is the document in memory, every other
\* entity is as it was, and no step of the run writes a client file or a
\* backup.
C19_HealthFixFrame ==
  /\ []HealthEffect
  /\ [][/\ files' = files /\ backups' = backups
        /\ ~probe.fix => canon' = canon]_vars

\* A fix has disabled an enabled server that failed its check, left a healthy
\* checked server enabled and an unchecked one alone, and saved the document.
C19_Witness ==
  /\ HealthDone /\ probe.fix /\ ~last.err /\ last.saved
  /\ \E i, j, u \in 1..Len(canon.servers) :
       /\ NotHealthy(i) /\ last.serversBefore[i].enabled /\ ~canon.servers[i].enabled
       /\ ~NotHealthy(j) /\ canon.servers[j].enabled
       /\ \E k \in 1..N : hsrv[k].name = canon.servers[j].name
       /\ \A k \in 1..N : hsrv[k].name # canon.servers[u].name

(***************************************************************************)
(* App.applyProfile                                                         *)
(***************************************************************************)
\* The last command was an apply that named a profile.
AppliedProfile == last.op = "apply" /\ last.profile # ""

\* The name is a member of the profile.
MemberOf(name, members) == \E m \in 1..Len(members) : members[m] = name

\* C20: after applyProfile(p) has succeeded a canonical entity is enabled
\* exactly if its name is a member of p, whatever its flag was, and nothing
\* else of it has changed; applying a profile that does not exist fails,
\* changes no entity and saves nothing.
C20_ProfileTotalReset ==
  AppliedProfile =>
    /\ Len(canon.servers) = Len(last.serversBefore)
    /\ last.saved =>
         /\ last.profile \in DOMAIN canon.profiles
         /\ \A i \in 1..Len(canon.servers) :
              /\ canon.servers[i].enabled
                   <=> MemberOf(canon.servers[i].name, canon.profiles[last.profile])
              /\ canon.servers[i] = [last.serversBefore[i] EXCEPT
                                       !.enabled = canon.servers[i].enabled]
    /\ last.profile \notin DOMAIN canon.profiles =>
         /\ last.err /\ ~last.saved
         /\ canon.servers = last.serversBefore

\* A profile was applied and saved: a server outside it that was enabled is
\* now disabled and a member is enabled.
C20_Witness ==
  /\ AppliedProfile /\ last.saved
  /\ \E i, j \in 1..Len(canon.servers) :
       /\ last.serversBefore[i].enabled /\ ~canon.servers[i].enabled
       /\ ~MemberOf(canon.servers[i].name, canon.profiles[last.profile])
       /\ canon.servers[j].enabled
       /\ MemberOf(canon.servers[j].name, canon.profiles[last.profile])

\* An apply named a profile that does not exist, with a server enabled.
C20_WitnessUnknown ==
  /\ AppliedProfile /\ last.profile \notin DOMAIN canon.profiles
  /\ \E i \in 1..Len(canon.servers) : canon.servers[i].enabled

(***************************************************************************)
(* Profiles whose members name no entity                                    *)
(***************************************************************************)
\* The profile command was given a member that names no canonical entity
\* and nothing else is wrong with it: the name is not empty, the profile is
\* new (create) or exists (update), and the save works.
MissingOnly ==
  /\ probe.fn \in {"CreateProfile", "UpdateProfile"}
  /\ MissingMember(probe.before.servers, probe.members)
  /\ probe.name # "" /\ ~probe.saveFails
  /\ (probe.fn = "CreateProfile") <=> (probe.name \notin DOMAIN probe.before.profiles)

\* C21: a profile member that names no canonical entity is not a reason for
\* rejection: creating or updating a profile with such a member succeeds and
\* stores the member list, and applying a profile with such a member
\* succeeds and enables the members that exist.
C21_MissingMemberNotRejected ==
  /\ MissingOnly =>
       /\ ~probe.err
       /\ probe.name \in DOMAIN canon.profiles
       /\ canon.profiles[probe.name] = probe.members
  /\ (/\ last.op = "apply" /\ last.profile \in DOMAIN canon.profiles
      /\ MissingMember(last.serversBefore, canon.profiles[last.profile])
      /\ last.saved) =>
       \A i \in 1..Len(canon.servers) :
         canon.servers[i].enabled
           <=> MemberOf(canon.servers[i].name, canon.profiles[last.profile])

(***************************************************************************)
(* Entity names                                                             *)
(***************************************************************************)
DistinctNames(servers) ==
  \A i, j \in 1..Len(servers) : servers[i].name = servers[j].name => i = j

\* The last command installed an entry whose name was already taken.
InstalledTaken ==
  /\ probe.fn = "InstallServer"
  /\ \E i \in 1..Len(probe.before.servers) : probe.before.servers[i].name = probe.name

\* C25: after any sequence of install, toggle, profile and health-fix
\* commands on a document with pairwise distinct entity names the names are
\* pairwise distinct; an install of a name already taken fails, leaves the
\* document as it was and saves nothing.
C25_NamesStayUnique ==
  /\ DistinctNames(canon.servers)
  /\ InstalledTaken => /\ probe.err /\ ~probe.saved
                       /\ canon = probe.before

\* An entry was installed, and installing it again was refused.
C25_Witness ==
  /\ InstalledTaken /\ probe.name = CUSTOM /\ probe.err
  /\ Len(canon.servers) >= 2

(***************************************************************************)
(* Loading a client's file and the canonical file                           *)
(***************************************************************************)
EmptyClientState == [servers |-> EmptyMap, other |-> EmptyMap]

\* C22: Load of every adapter returns the empty client state and no error
\* when the client's file is missing and when it exists but cannot be
\* parsed.
C22_LoadToleratesBadFile ==
  (probe.fn = "Load" /\ (~probe.file.exists \/ ~probe.file.ok)) =>
    /\ ~probe.out.err
    /\ probe.out.cfg = EmptyClientState

\* C23: config.Load of a path that does not exist returns without error a
\* document with no server, an initialized empty profile map and a version
\* tag; a file that cannot be read or parsed gives an error and no document,
\* and then LoadApp gives no App.
C23_CanonicalLoad ==
  probe.fn = "config.Load" =>
    /\ probe.file.state = "missing" =>
         /\ ~probe.out.err /\ ~probe.out.doc.nil
         /\ Len(probe.out.doc.servers) = 0
         /\ ~probe.out.doc.profilesNil /\ DOMAIN probe.out.doc.profiles = {}
         /\ probe.out.doc.version # ""
         /\ ~probe.app.err /\ probe.app.app.Canon = probe.out.doc
    /\ probe.file.state \in {"unreadable", "garbage"} =>
         /\ probe.out.err /\ probe.out.doc.nil
         /\ probe.app.err /\ probe.app.app.nil

\* config.Load was called on a path that does not exist.
C23_Witness ==
  /\ probe.fn = "config.Load" /\ probe.file.state = "missing"
  /\ ~probe.out.err

\* config.Load was called on a file that is not JSON.
C23_WitnessGarbage ==
  /\ probe.fn = "config.Load" /\ probe.file.state = "garbage"
  /\ probe.out.err

(***************************************************************************)
(* The stdio check under a context that ends                                *)
(***************************************************************************)
\* The context of the check ended while the started process was still
\* running and before the grace window was over.
EndedInGrace ==
  /\ probe.fn = "StdioCheck" /\ probe.run.started
  /\ Behaviour(probe.command) = "runs"
  /\ probe.cancel = "during" \/ probe.remaining < GraceMs

\* C24: a stdio check whose context is cancelled or expires while the
\* started process has neither exited nor outlived the grace window of one
\* second returns status timeout, and the process is killed.
C24_CancelledInGraceIsTimeout ==
  EndedInGrace => probe.run.status = StatusTimeout /\ probe.run.killed

\* The deadline of the check passed 400 ms after the process was started.
C24_Witness ==
  /\ EndedInGrace /\ probe.cancel = "no" /\ probe.remaining = 400
  /\ probe.run.status = StatusTimeout /\ probe.run.dur = 400

\* The batch context was cancelled while the process was running.
C24_WitnessCancelled ==
  /\ EndedInGrace /\ probe.cancel = "during"
  /\ probe.run.status = StatusTimeout

(***************************************************************************)
(* Unknown check types                                                      *)
(***************************************************************************)
\* The k-th server of the batch has a check type no checker is registered for.
UnknownType(k) == HealthSpecOf(hsrv[k]).type \notin Checkers

\* C26: a server whose check type is none of stdio, http, tcp gets a result
\* with status error that names it, made without any attempt of a checker,
\* and a batch that holds such a server and returns without cancellation
\* has a well-formed result for every server.
C26_UnknownTypeIsError ==
  /\ \A k \in 1..N :
       (UnknownType(k) /\ wpc[k] = "exited") =>
         results[k] = [name |-> hsrv[k].name, type |-> HealthSpecOf(hsrv[k]).type,
                       status |-> StatusError, attempts |-> 0]
  /\ (mpc = "returned" /\ \E j \in 1..N : UnknownType(j)) =>
       \A k \in 1..N : /\ results[k].name = hsrv[k].name
                        /\ results[k].status \in Statuses

\* A batch with a server of unknown type has returned, with a healthy
\* result for another server.
C26_Witness ==
  /\ mpc = "returned"
  /\ \E j, k \in 1..N :
       /\ UnknownType(j) /\ results[j].status = StatusError
       /\ ~UnknownType(k) /\ results[k].status = StatusHealthy

(***************************************************************************)
(* Well-formed results                                                      *)
(***************************************************************************)
\* C27: every result CheckServer returns is well formed, whatever the
\* integers of the health spec are: its status is one of healthy, unhealthy,
\* timeout, error and its server name is the name of the checked server.
C27_ResultWellFormed ==
  probe.fn \in {"CheckServer", "CheckServerOdd"} =>
    /\ probe.run.res.status \in Statuses
    /\ probe.run.res.name = probe.srv.name

(***************************************************************************)
(* App.Toggle and the resolution of its query                               *)
(***************************************************************************)
Toggled == last.op = "toggle"

\* C28: a toggle whose query resolves to no entity returns the error with
\* every entity as it was, nothing saved and no client reconciled; a toggle
\* that resolves changes nothing but the enabled flag of the chosen entity,
\* and reconciles a client only after the canonical document was saved.
C28_ToggleAtomic ==
  Toggled =>
    /\ Len(canon.servers) = Len(last.serversBefore)
    /\ ~last.resolved =>
         /\ last.err /\ ~last.saved
         /\ canon.servers = last.serversBefore
         /\ \A c \in Clients : ~Run(c).ran /\ ~Wrote(c)
    /\ last.resolved =>
         /\ \A i \in 1..Len(canon.servers) :
              /\ canon.servers[i] = [last.serversBefore[i] EXCEPT
                                       !.enabled = canon.servers[i].enabled]
              /\ canon.servers[i].name # last.chosen
                   => canon.servers[i] = last.serversBefore[i]
         /\ (\E c \in Clients : Run(c).ran) => last.saved

\* A query that matches nothing, with a client installed and a server
\* enabled.
C28_Witness ==
  /\ Toggled /\ ~last.resolved /\ Installed # {}
  /\ \E i \in 1..Len(canon.servers) : canon.servers[i].enabled

\* A toggle flipped the chosen one of two entities and a client file was
\* written.
C28_WitnessResolved ==
  /\ Toggled /\ last.resolved /\ last.saved /\ Len(canon.servers) = 2
  /\ \E i \in 1..Len(canon.servers) :
       canon.servers[i].enabled # last.serversBefore[i].enabled
  /\ \E c \in Clients : Wrote(c)

(***************************************************************************)
(* Backups of a client's file                                               *)
(***************************************************************************)
\* C29: a backup file, once created, keeps its content: no later
\* reconciliation of the client replaces it, also when it runs within the
\* same clock second, so the content a write replaced stays available.
C29_BackupsKept ==
  [][\A c \in Clients : \A t \in 0..MaxTime :
       backups[c][t].exists => backups'[c][t] = backups[c][t]]_vars

(***************************************************************************)
(* The slice CheckServers has returned                                      *)
(***************************************************************************)
\* C30: once CheckServers has returned its slice no worker writes to a slot
\* of it any more, also when it returned because the batch context was
\* cancelled while checks were in flight.
C30_ResultsStableOnceReturned ==
  [][Returned => results' = results]_vars
====
